---- MODULE Spec2Model ----
(***************************************************************************)
(* Model of the project tracker's progress engine:                         *)
(*   pm/scanner/parser.py    ProgressParser (parse_content, parse_project, *)
(*                           _merge_progress)                              *)
(*   pm/database/models.py   Project.health_score                          *)
(*   pm/generator/prompts.py ContinuePromptGenerator.generate              *)
(*   pm/cli.py               scan (the part that stores the parsed state)  *)
(*                                                                         *)
(* A document is a sequence of tokens.  A token is a maximal run of        *)
(* digits, a word, or one punctuation / whitespace character; "\n" is the  *)
(* line break.  Characters outside ASCII are written by their code point   *)
(* ("U+2713" is the check mark).  The regular expressions of the parser    *)
(* are evaluated on these token sequences with Python's re semantics       *)
(* (leftmost match, greedy / lazy quantifiers, "." excludes "\n").         *)
(*                                                                         *)
(* A percentage is a pair <<n, d>> in lowest terms standing for the float  *)
(* n/d; None (unset) is the empty tuple.                                   *)
(***************************************************************************)
EXTENDS Integers, Sequences, FiniteSets, TLC

(***************************************************************************)
(* Bounds of the model                                                     *)
(***************************************************************************)
MaxLines == 2
MaxFiles == 2

(***************************************************************************)
(* Generic helpers                                                         *)
(***************************************************************************)
None == <<>>

NoneStr == <<"<None>">>

Min(a, b) == IF a <= b THEN a ELSE b

RECURSIVE Gcd(_, _)
Gcd(a, b) == IF b = 0 THEN a ELSE Gcd(b, a % b)

\* the float n/d, kept in lowest terms so that equal floats are equal values
Frac(n, d) == LET g == Gcd(n, d) IN <<n \div g, d \div g>>

FracLess(p, q) == p[1] * q[2] < q[1] * p[2]

SubSeqFrom(s, i) == IF i > Len(s) THEN <<>> ELSE SubSeq(s, i, Len(s))

(***************************************************************************)
(* Character classes on tokens                                             *)
(***************************************************************************)
\* \s
IsSpace(t) == t \in {" ", "\n", "\t"}

\* \d+ : the decimal value of a digit run
NumVal(t) ==
    CASE t = "0" -> 0 [] t = "3" -> 3 [] t = "4" -> 4 [] t = "5" -> 5
      [] t = "6" -> 6 [] t = "8" -> 8 [] t = "9" -> 9 [] t = "50" -> 50
      [] t = "75" -> 75 [] t = "150" -> 150
      [] OTHER -> -1

IsNum(t) == NumVal(t) >= 0

\* 10^(number of digits of the run), for the fraction part of "75.5"
NumScale(t) == IF NumVal(t) < 10 THEN 10 ELSE IF NumVal(t) < 100 THEN 100 ELSE 1000

\* str.lower() / re.IGNORECASE on the words the patterns look for
Lower(t) ==
    CASE t = "OF" -> "of" [] t = "Of" -> "of"
      [] t = "Option" -> "option" [] t = "OPTION" -> "option"
      [] t = "Done" -> "done" [] t = "DONE" -> "done"
      [] t = "Complete" -> "complete" [] t = "COMPLETE" -> "complete"
      [] t = "Completed" -> "completed"
      [] t = "Finished" -> "finished"
      [] t = "Recommended" -> "recommended" [] t = "Recommend" -> "recommend"
      [] t = "Current" -> "current" [] t = "Recommendation" -> "recommendation"
      [] t = "Decision" -> "decision" [] t = "Point" -> "point"
      [] t = "Phase" -> "phase" [] t = "PHASE" -> "phase"
      [] t = "Status" -> "status" [] t = "STATUS" -> "status"
      [] t = "Focus" -> "focus" [] t = "Next" -> "next" [] t = "NEXT" -> "next"
      [] t = "Step" -> "step" [] t = "Steps" -> "steps" [] t = "STEPS" -> "steps"
      [] t = "Immediate" -> "immediate" [] t = "Last" -> "last"
      [] t = "Updated" -> "updated" [] t = "What's" -> "what's"
      [] t = "X" -> "x" [] t = "A" -> "a" [] t = "B" -> "b" [] t = "C" -> "c"
      [] OTHER -> t

\* str.upper() on the tokens of an item text
Upper(t) ==
    CASE t = "complete" -> "COMPLETE" [] t = "Complete" -> "COMPLETE"
      [] t = "completed" -> "COMPLETED" [] t = "Completed" -> "COMPLETED"
      [] t = "incomplete" -> "INCOMPLETE"
      [] t = "blocked" -> "BLOCKED" [] t = "Blocked" -> "BLOCKED"
      [] t = "pending" -> "PENDING" [] t = "Pending" -> "PENDING"
      [] t = "in" -> "IN" [] t = "In" -> "IN"
      [] t = "progress" -> "PROGRESS" [] t = "Progress" -> "PROGRESS"
      [] t = "in_progress" -> "IN_PROGRESS"
      [] t = "not" -> "NOT" [] t = "Not" -> "NOT"
      [] t = "started" -> "STARTED" [] t = "Started" -> "STARTED"
      [] t = "critical" -> "CRITICAL" [] t = "Critical" -> "CRITICAL"
      [] t = "high" -> "HIGH" [] t = "High" -> "HIGH"
      [] t = "medium" -> "MEDIUM" [] t = "Medium" -> "MEDIUM"
      [] t = "low" -> "LOW" [] t = "Low" -> "LOW"
      [] t = "follow" -> "FOLLOW" [] t = "Follow" -> "FOLLOW"
      [] t = "immediate" -> "IMMEDIATE" [] t = "Immediate" -> "IMMEDIATE"
      [] t = "x" -> "X" [] t = "a" -> "A" [] t = "b" -> "B"
      [] t = "task" -> "TASK" [] t = "Task" -> "TASK"
      [] t = "docs" -> "DOCS" [] t = "done" -> "DONE" [] t = "Done" -> "DONE"
      [] t = "U+00E2" -> "U+00C2" [] t = "U+0153" -> "U+0152"
      [] t = "U+00F0" -> "U+00D0"
      [] OTHER -> t

\* the word w occurs inside the token t (both already in one case)
Within(w, t) ==
    \/ t = w
    \/ <<w, t>> \in { <<"COMPLETE", "COMPLETED">>, <<"COMPLETE", "INCOMPLETE">>,
                      <<"complete", "completed">>, <<"complete", "incomplete">>,
                      <<"done", "abandoned">>, <<"finished", "unfinished">>,
                      <<"IN_PROGRESS", "IN_PROGRESS:">>, <<"LOW", "FOLLOW">> }

\* (?:complete|done|finished) matches somewhere in the token, ignoring case
HasDoneWord(t) == \E w \in {"complete", "done", "finished"} : Within(w, Lower(t))

\* [A-Z] under re.IGNORECASE: one letter
IsLetter(t) == Lower(t) \in {"a", "b", "c", "x"}

\* greedy \s* from position i: the first position that is not whitespace
RECURSIVE SkipSpaces(_, _)
SkipSpaces(c, i) ==
    IF i <= Len(c) /\ IsSpace(c[i]) THEN SkipSpaces(c, i + 1) ELSE i

\* the position of the line break that ends the line holding position i
\* (Len(c) + 1 when the line is the last one)
RECURSIVE LineEnd(_, _)
LineEnd(c, i) ==
    IF i > Len(c) \/ c[i] = "\n" THEN i ELSE LineEnd(c, i + 1)

\* the least element of a non-empty set of positions (leftmost match)
Leftmost(S) == CHOOSE i \in S : \A j \in S : i <= j

\* str.strip() on a token sequence
RECURSIVE StripLeft(_)
StripLeft(s) ==
    IF s # <<>> /\ IsSpace(Head(s)) THEN StripLeft(Tail(s)) ELSE s

RECURSIVE StripRight(_)
StripRight(s) ==
    IF s # <<>> /\ IsSpace(s[Len(s)]) THEN StripRight(SubSeq(s, 1, Len(s) - 1)) ELSE s

Strip(s) == StripRight(StripLeft(s))

(***************************************************************************)
(* COMPLETION_PATTERNS and _extract_completion                             *)
(***************************************************************************)
\* (\d+)\s*(?:of|/)\s*(\d+) at position i: the position of the second number,
\* 0 when there is no match
NofMAt(c, i) ==
    IF i <= Len(c) /\ IsNum(c[i])
    THEN LET j == SkipSpaces(c, i + 1) IN
         IF j <= Len(c) /\ Lower(c[j]) \in {"of", "/"}
         THEN LET k == SkipSpaces(c, j + 1) IN
              IF k <= Len(c) /\ IsNum(c[k]) THEN k ELSE 0
         ELSE 0
    ELSE 0

\* pattern 1: (\d+)\s*(?:of|/)\s*(\d+).*(?:complete|done|finished)
Pattern1At(c, i) ==
    LET k == NofMAt(c, i) IN
    /\ k > 0
    /\ \E m \in (k + 1)..(LineEnd(c, k) - 1) : HasDoneWord(c[m])

\* pattern 2: (?:complete|done|finished).*?(\d+)\s*(?:of|/)\s*(\d+)
\* the lazy .*? stops at the first number of the line that starts an N-of-M
Pattern2Starts(c, i) == { j \in (i + 1)..(LineEnd(c, i) - 1) : NofMAt(c, j) > 0 }

Pattern2At(c, i) == HasDoneWord(c[i]) /\ Pattern2Starts(c, i) # {}

\* pattern 3: (\d+(?:\.\d+)?)\s*%  -- the value as float(), None without match
PercentAfter(c, i) == LET j == SkipSpaces(c, i) IN j <= Len(c) /\ c[j] = "%"

Pattern3Value(c, i) ==
    IF ~ IsNum(c[i]) THEN None
    ELSE IF i + 2 <= Len(c) /\ c[i + 1] = "." /\ IsNum(c[i + 2]) /\ PercentAfter(c, i + 3)
         THEN Frac(NumVal(c[i]) * NumScale(c[i + 2]) + NumVal(c[i + 2]), NumScale(c[i + 2]))
    ELSE IF PercentAfter(c, i + 1) THEN Frac(NumVal(c[i]), 1)
    ELSE None

\* (done / total) * 100
Ratio(done, total) == Frac(done * 100, total)

_extract_completion(content) ==
    LET s1 == { i \in 1..Len(content) : Pattern1At(content, i) }
        s2 == { i \in 1..Len(content) : Pattern2At(content, i) }
        s3 == { i \in 1..Len(content) : Pattern3Value(content, i) # None }
        i1 == Leftmost(s1)
        i2 == Leftmost(s2)
        j2 == Leftmost(Pattern2Starts(content, i2))
    IN  IF s1 # {} /\ NumVal(content[NofMAt(content, i1)]) > 0
        THEN Ratio(NumVal(content[i1]), NumVal(content[NofMAt(content, i1)]))
        ELSE IF s2 # {} /\ NumVal(content[NofMAt(content, j2)]) > 0
        THEN Ratio(NumVal(content[j2]), NumVal(content[NofMAt(content, j2)]))
        ELSE IF s3 # {}
        THEN Pattern3Value(content, Leftmost(s3))
        ELSE None

(***************************************************************************)
(* _extract_checkboxes                                                     *)
(***************************************************************************)
\* content.split('\n')
RECURSIVE SplitLines(_)
SplitLines(c) ==
    LET e == LineEnd(c, 1) IN
    IF e > Len(c) THEN <<c>>
    ELSE <<SubSeq(c, 1, e - 1)>> \o SplitLines(SubSeqFrom(c, e + 1))

\* the characters of the class [ xX...] as the source file spells it: the two
\* check marks are stored as the mis-decoded sequences U+00E2 U+0153 U+201C
\* and U+00E2 U+0153 U+2026, so the class holds those characters and not
\* U+2713 / U+2705
MarkClass == {" ", "x", "X", "U+00E2", "U+0153", "U+201C", "U+2026"}

\* greedy [\s-]* from position i
RECURSIVE SkipLead(_, _)
SkipLead(line, i) ==
    IF i <= Len(line) /\ (IsSpace(line[i]) \/ line[i] = "-")
    THEN SkipLead(line, i + 1) ELSE i

\* re.match(r'^[\s-]*\[([ xX..])\]\s+(.+)$', line): position of "[" or 0
CheckboxAt(line) ==
    LET i == SkipLead(line, 1) IN
    IF /\ i + 4 <= Len(line)
       /\ line[i] = "["
       /\ line[i + 1] \in MarkClass
       /\ line[i + 2] = "]"
       /\ IsSpace(line[i + 3])
    THEN i ELSE 0

\* group(2): what is left after the greedy \s+; when the whitespace runs to
\* the end of the line the engine gives the last whitespace back to (.+)
CheckboxText(line, i) ==
    LET j == SkipSpaces(line, i + 3) IN
    IF j <= Len(line) THEN SubSeqFrom(line, j) ELSE <<line[Len(line)]>>

STATUS_INDICATORS ==
    << << <<"U+00E2", "U+0153", "U+2026">>, "complete" >>,
       << <<"U+00E2", "U+0153", "U+201C">>, "complete" >>,
       << <<"U+00E2", "U+02DC", "U+2018">>, "complete" >>,
       << <<"COMPLETE">>, "complete" >>,
       << <<"U+00E2", "U+00B3">>, "in_progress" >>,
       << <<"U+00F0", "U+0178", "U+201D", "U+201E">>, "in_progress" >>,
       << <<"IN", " ", "PROGRESS">>, "in_progress" >>,
       << <<"IN_PROGRESS">>, "in_progress" >>,
       << <<"U+00E2", "U+00AC", "U+0153">>, "pending" >>,
       << <<"U+00E2", "U+00B8", "U+00EF", "U+00B8">>, "pending" >>,
       << <<"NOT", " ", "STARTED">>, "pending" >>,
       << <<"PENDING">>, "pending" >>,
       << <<"U+00F0", "U+0178", "U+201D", "U+00B4">>, "blocked" >>,
       << <<"U+00E2", "U+0152">>, "blocked" >>,
       << <<"BLOCKED">>, "blocked" >> >>

\* faulty variant of PRIORITY_INDICATORS: LOW is tried first
PRIORITY_INDICATORS_low_first ==
    << << <<"LOW">>, "low" >>,
       << <<"CRITICAL">>, "critical" >>,
       << <<"HIGH">>, "high" >>,
       << <<"MEDIUM">>, "medium" >>,
       << <<"IMMEDIATE">>, "critical" >> >>

PRIORITY_INDICATORS ==
    << << <<"CRITICAL">>, "critical" >>,
       << <<"HIGH">>, "high" >>,
       << <<"MEDIUM">>, "medium" >>,
       << <<"LOW">>, "low" >>,
       << <<"IMMEDIATE">>, "critical" >> >>

\* indicator in text.upper()
HasIndicator(text, ind) ==
    \E i \in 1..(Len(text) - Len(ind) + 1) :
        IF Len(ind) = 1 THEN Within(ind[1], Upper(text[i]))
        ELSE \A k \in 1..Len(ind) : Upper(text[i + k - 1]) = ind[k]

\* the loop with break over the dictionary, in insertion order: the value of
\* the first indicator found, dflt when none is found
FirstIndicator(tbl, text, dflt) ==
    LET hits == { n \in 1..Len(tbl) : HasIndicator(text, tbl[n][1]) } IN
    IF hits = {} THEN dflt ELSE tbl[Leftmost(hits)][2]

NoPriority == "<None>"
NoFile == "<None>"

\* the body of the for loop for one line
CheckboxItem(line, line_num, source_file) ==
    LET i == CheckboxAt(line)
        checked == line[i + 1] # " "
        text == Strip(CheckboxText(line, i))
    IN  [ content |-> text,
          status |-> FirstIndicator(STATUS_INDICATORS, text,
                                    IF checked THEN "complete" ELSE "pending"),
          priority |-> FirstIndicator(PRIORITY_INDICATORS, text, NoPriority),
          source_file |-> source_file,
          line_number |-> line_num ]

RECURSIVE ItemsOfLines(_, _, _)
ItemsOfLines(lines, n, source_file) ==
    IF n > Len(lines) THEN <<>>
    ELSE (IF CheckboxAt(lines[n]) > 0
          THEN <<CheckboxItem(lines[n], n, source_file)>> ELSE <<>>)
         \o ItemsOfLines(lines, n + 1, source_file)

_extract_checkboxes(content, source_file) ==
    ItemsOfLines(SplitLines(content), 1, source_file)

(***************************************************************************)
(* _extract_decisions                                                      *)
(***************************************************************************)
\* greedy [:\s]+ from position i
RECURSIVE SkipSep(_, _)
SkipSep(c, i) ==
    IF i <= Len(c) /\ (IsSpace(c[i]) \/ c[i] = ":") THEN SkipSep(c, i + 1) ELSE i

\* [:\s]+([^\n]+) from position s: <<first, last>> positions of the captured
\* group, <<>> without match.  When the separators run to the end of the
\* content the engine gives separators back until ([^\n]+) can take one.
LabelCapture(c, s) ==
    LET m == SkipSep(c, s)
        back == { p \in (s + 1)..Len(c) : c[p] # "\n" }
        p == CHOOSE q \in back : \A r \in back : r <= q
    IN  IF m = s THEN <<>>
        ELSE IF m <= Len(c) THEN <<m, LineEnd(c, m) - 1>>
        ELSE IF back = {} THEN <<>>
        ELSE <<p, LineEnd(c, p) - 1>>

Captured(c, g) == Strip(SubSeq(c, g[1], g[2]))


\* ###?\s*Option\s+([A-Z]) at position i: the position of the letter, 0
\* without match
OptionLetterAt(c, i) ==
    IF c[i] \in {"##", "###", "####"}
    THEN LET j == SkipSpaces(c, i + 1) IN
         IF j <= Len(c) /\ Lower(c[j]) = "option"
         THEN LET k == SkipSpaces(c, j + 1) IN
              IF k > j + 1 /\ k <= Len(c) /\ IsLetter(c[k]) THEN k ELSE 0
         ELSE 0
    ELSE 0

\* option_pattern at position i
OptionAt(c, i) ==
    LET k == OptionLetterAt(c, i) IN
    IF k = 0 THEN <<>> ELSE LabelCapture(c, k + 1)

\* f"Option {m.group(1)}: {m.group(2).strip()}"
FormatOption(letter, text) == <<"Option", " ", letter, ":", " ">> \o text

\* list(re.finditer(option_pattern, content)) mapped to the formatted options:
\* the matches from position `from` on, each search starting where the
\* previous match ended
RECURSIVE OptionMatches(_, _)

\* the match at position i with the letter at k and the text at g, and the
\* matches after it
OptionMatchesAt(c, i, k, g) ==
    <<FormatOption(c[k], Captured(c, g))>> \o OptionMatches(c, g[2] + 1)

OptionMatches(c, from) ==
    LET hits == { i \in from..Len(c) : OptionAt(c, i) # <<>> } IN
    IF hits = {} THEN <<>>
    ELSE OptionMatchesAt(c, Leftmost(hits), OptionLetterAt(c, Leftmost(hits)),
                         OptionAt(c, Leftmost(hits)))

\* (?:recommend|recommended|current recommendation) at position i: the
\* position after the label, 0 without match
RecLabelAt(c, i) ==
    IF Lower(c[i]) \in {"recommend", "recommended"} THEN i + 1
    ELSE IF /\ i + 2 <= Len(c)
            /\ Lower(c[i]) = "current"
            /\ c[i + 1] = " "
            /\ Lower(c[i + 2]) = "recommendation"
         THEN i + 3
    ELSE 0

\* (?:decision\s+point|what\'s\s+next) at position i
QuestionLabelAt(c, i) ==
    LET k == SkipSpaces(c, i + 1) IN
    IF /\ k > i + 1
       /\ k <= Len(c)
       /\ \/ Lower(c[i]) = "decision" /\ Lower(c[k]) = "point"
          \/ Lower(c[i]) = "what's" /\ Lower(c[k]) = "next"
    THEN k + 1 ELSE 0

RecAt(c, i) == IF RecLabelAt(c, i) = 0 THEN <<>> ELSE LabelCapture(c, RecLabelAt(c, i))

QuestionAt(c, i) ==
    IF QuestionLabelAt(c, i) = 0 THEN <<>> ELSE LabelCapture(c, QuestionLabelAt(c, i))

\* re.search(rec_pattern, content) from position i on: group(1).strip() of
\* the leftmost match, None without match
SearchRec(c, i) ==
    LET hits == { k \in i..Len(c) : RecAt(c, k) # <<>> } IN
    IF hits = {} THEN NoneStr ELSE Captured(c, RecAt(c, Leftmost(hits)))

\* re.search(question_pattern, content) from position i on
SearchQuestion(c, i) ==
    LET hits == { k \in i..Len(c) : QuestionAt(c, k) # <<>> } IN
    IF hits = {} THEN NoneStr ELSE Captured(c, QuestionAt(c, Leftmost(hits)))

DefaultQuestion == <<"Choose", " ", "an", " ", "approach">>

\* "if len(options) >= 2: decisions.append(DecisionPoint(...))", the question
\* being q_match.group(1).strip() if q_match else "Choose an approach"
DecisionsOf(options, question, recommendation, source_file) ==
    IF Len(options) >= 2
    THEN << [ question |-> IF question = NoneStr THEN DefaultQuestion ELSE question,
              options |-> options,
              recommendation |-> recommendation,
              source_file |-> source_file ] >>
    ELSE <<>>

\* faulty variant of _extract_decisions: one option heading is enough
_extract_decisions_from_one(content, source_file) ==
    LET options == OptionMatches(content, 1) IN
    IF Len(options) >= 1
    THEN << [ question |-> IF SearchQuestion(content, 1) = NoneStr THEN DefaultQuestion
                           ELSE SearchQuestion(content, 1),
              options |-> options,
              recommendation |-> SearchRec(content, 1),
              source_file |-> source_file ] >>
    ELSE <<>>

_extract_decisions(content, source_file) ==
    DecisionsOf(OptionMatches(content, 1), SearchQuestion(content, 1),
                SearchRec(content, 1), source_file)

(***************************************************************************)
(* _extract_pattern and the label patterns                                 *)
(***************************************************************************)
\* w1\s+w2\s+... at position i, ignoring case: the position after the last
\* word, 0 without match
RECURSIVE WordsAt(_, _, _)
WordsAt(c, i, words) ==
    IF i > Len(c) \/ Lower(c[i]) # words[1] THEN 0
    ELSE IF Len(words) = 1 THEN i + 1
    ELSE LET k == SkipSpaces(c, i + 1) IN
         IF k > i + 1 THEN WordsAt(c, k, Tail(words)) ELSE 0

\* \*\*w1\s+w2\*\* at position i
BoldWordsAt(c, i, words) ==
    IF c[i] # "**" THEN 0
    ELSE LET e == WordsAt(c, i + 1, words) IN
         IF e > 0 /\ e <= Len(c) /\ c[e] = "**" THEN e + 1 ELSE 0

\* a label pattern <<bold, alternatives>> followed by [:\s]+([^\n]+), at
\* position i: the captured positions, <<>> without match
LabelPatternAt(c, i, pat) ==
    LET ends == { e \in { IF pat[1] THEN BoldWordsAt(c, i, w) ELSE WordsAt(c, i, w)
                          : w \in pat[2] } : e > 0 }
    IN  IF ends = {} THEN <<>> ELSE LabelCapture(c, CHOOSE e \in ends : TRUE)

\* (\d+(?:\.\d+)?[:\s]+[^\n]+) at position k
PhaseNumberAt(c, k) ==
    IF k > Len(c) \/ ~ IsNum(c[k]) THEN <<>>
    ELSE LET g == LabelCapture(c, IF k + 2 <= Len(c) /\ c[k + 1] = "." /\ IsNum(c[k + 2])
                                  THEN k + 3 ELSE k + 1)
         IN  IF g = <<>> THEN <<>> ELSE <<k, g[2]>>

\* (?:phase\s+)? at position j, w being the position after the word (0: no
\* word): the position where the number has to be
AfterPhaseWord(c, j, w) == IF w > 0 /\ SkipSpaces(c, w) > w THEN SkipSpaces(c, w) ELSE j

\* ##\s*(?:phase\s+)?(\d+(?:\.\d+)?[:\s]+[^\n]+) at position i
PhaseHeadingAt(c, i) ==
    IF c[i] \notin {"##", "###", "####"} THEN <<>>
    ELSE LET j == SkipSpaces(c, i + 1) IN
         PhaseNumberAt(c, AfterPhaseWord(c, j, WordsAt(c, j, <<"phase">>)))

\* one entry of a pattern list at position i
PatternAt(c, i, pat) ==
    IF Len(pat) = 1 THEN PhaseHeadingAt(c, i) ELSE LabelPatternAt(c, i, pat)

PHASE_PATTERNS ==
    << <<FALSE, {<<"current", "phase">>, <<"phase">>}>>,
       <<"phase-heading">>,
       <<TRUE, {<<"current", "phase">>, <<"phase">>}>> >>

STATUS_PATTERNS == << <<TRUE, {<<"status">>}>>, <<FALSE, {<<"status">>}>> >>

FOCUS_PATTERNS == << <<TRUE, {<<"current", "focus">>}>>, <<FALSE, {<<"current", "focus">>}>> >>

NEXT_STEP_PATTERNS ==
    << <<FALSE, {<<"next", "step">>, <<"immediate", "next">>}>>,
       <<TRUE, {<<"next", "step">>}>> >>

UPDATED_PATTERNS == << <<TRUE, {<<"last", "updated">>}>>, <<FALSE, {<<"last", "updated">>}>> >>

\* re.search(pattern, content) from position i on: match.group(1).strip() of
\* the leftmost match, None without match
SearchPatternFrom(c, i, pat) ==
    LET hits == { k \in i..Len(c) : PatternAt(c, k, pat) # <<>> } IN
    IF hits = {} THEN NoneStr ELSE Captured(c, PatternAt(c, Leftmost(hits), pat))

\* "if match: return match.group(1).strip()", else the next pattern
FirstMatch(found, rest) == IF found # NoneStr THEN found ELSE rest

\* the loop over patterns[n..]: the first pattern that matches anywhere wins
RECURSIVE ExtractPatternFrom(_, _, _)
ExtractPatternFrom(content, patterns, n) ==
    IF n > Len(patterns) THEN NoneStr
    ELSE FirstMatch(SearchPatternFrom(content, 1, patterns[n]),
                    ExtractPatternFrom(content, patterns, n + 1))

_extract_pattern(content, patterns) == ExtractPatternFrom(content, patterns, 1)

(***************************************************************************)
(* _extract_next_steps                                                     *)
(***************************************************************************)
\* ###?\s*(?:Immediate\s+)?Next\s+Steps?\s*\n at position i: the position where
\* the bulleted run has to start, 0 without match.  The whitespace after the
\* heading must end in a line break, because the first bullet has to follow
\* the matched \n directly.
NextStepsHeadAt(c, i) ==
    IF c[i] \notin {"##", "###", "####"} THEN 0
    ELSE LET j == SkipSpaces(c, i + 1)
             ends == { e \in { WordsAt(c, j, w) :
                                 w \in { <<"immediate", "next", "steps">>,
                                         <<"immediate", "next", "step">>,
                                         <<"next", "steps">>, <<"next", "step">> } } : e > 0 }
             e == CHOOSE x \in ends : TRUE
             m == SkipSpaces(c, e)
         IN  IF ends = {} THEN 0
             ELSE IF m > e /\ c[m - 1] = "\n" THEN m ELSE 0

\* one [-*]\s+[^\n]+\n? at position p: the position after it, 0 without match
BulletAt(c, p) ==
    IF p > Len(c) \/ c[p] \notin {"-", "*"} THEN 0
    ELSE LET q == SkipSpaces(c, p + 1)
             back == { r \in (p + 2)..Len(c) : c[r] # "\n" }
             last == IF q = p + 1 THEN 0
                     ELSE IF q <= Len(c) THEN LineEnd(c, q) - 1
                     ELSE IF back = {} THEN 0
                     ELSE LineEnd(c, CHOOSE r \in back : \A x \in back : x <= r) - 1
         IN  IF last = 0 THEN 0
             ELSE IF last + 1 <= Len(c) /\ c[last + 1] = "\n" THEN last + 2 ELSE last + 1

\* the greedy (...)+ : the position after the last bullet that matches
RECURSIVE BulletsEnd(_, _)
BulletsEnd(c, p) ==
    IF BulletAt(c, p) = 0 THEN p ELSE BulletsEnd(c, BulletAt(c, p))

\* line.lstrip('-* ')
RECURSIVE LStripBullet(_)
LStripBullet(line) ==
    IF line # <<>> /\ Head(line) \in {"-", "*", "**", " "}
    THEN LStripBullet(Tail(line)) ELSE line

\* the loop over section.split('\n')
RECURSIVE StepsOfLines(_)
StepsOfLines(lines) ==
    IF lines = <<>> THEN <<>>
    ELSE LET line == Strip(Head(lines)) IN
         (IF line # <<>> /\ Head(line) \in {"-", "*", "**"}
          THEN <<Strip(LStripBullet(line))>> ELSE <<>>)
         \o StepsOfLines(Tail(lines))

NextStepsCap == 5

\* faulty variant of NextStepsAt: every step of the section is returned
NextStepsUncapped(c, i, m) ==
    StepsOfLines(SplitLines(SubSeq(c, m, BulletsEnd(c, m) - 1)))

\* the steps of the section whose heading is matched at i, the bullets
\* starting at m
NextStepsAt(c, i, m) ==
    LET section == SubSeq(c, m, BulletsEnd(c, m) - 1)
        steps == StepsOfLines(SplitLines(section))
    IN  SubSeq(steps, 1, Min(NextStepsCap, Len(steps)))

\* re.search(section_pattern, content) from position i on, and the steps of
\* the matched section
NextStepsFrom(c, i) ==
    LET hits == { k \in i..Len(c) :
                    NextStepsHeadAt(c, k) > 0 /\ BulletAt(c, NextStepsHeadAt(c, k)) > 0 }
    IN  IF hits = {} THEN <<>>
        ELSE NextStepsAt(c, Leftmost(hits), NextStepsHeadAt(c, Leftmost(hits)))

_extract_next_steps(content) == NextStepsFrom(content, 1)

(***************************************************************************)
(* ProjectProgress and parse_content                                       *)
(***************************************************************************)
\* faulty variant of EmptyProgress: the completion starts at zero percent
ZeroProgress ==
    [ completion_pct |-> <<0, 1>>,
      total_items |-> 0,
      completed_items |-> 0,
      current_phase |-> NoneStr,
      current_status |-> NoneStr,
      current_focus |-> NoneStr,
      last_updated |-> NoneStr,
      next_action |-> NoneStr,
      next_steps |-> <<>>,
      items |-> <<>>,
      decisions |-> <<>>,
      has_pending_decision |-> FALSE ]

\* ProjectProgress(): the dataclass defaults
EmptyProgress ==
    [ completion_pct |-> None,
      total_items |-> 0,
      completed_items |-> 0,
      current_phase |-> NoneStr,
      current_status |-> NoneStr,
      current_focus |-> NoneStr,
      last_updated |-> NoneStr,
      next_action |-> NoneStr,
      next_steps |-> <<>>,
      items |-> <<>>,
      decisions |-> <<>>,
      has_pending_decision |-> FALSE ]

\* sum(1 for i in items if i.status == status)
RECURSIVE CountStatus(_, _)
CountStatus(items, status) ==
    IF items = <<>> THEN 0
    ELSE (IF Head(items).status = status THEN 1 ELSE 0) + CountStatus(Tail(items), status)

\* faulty variant of ProgressOf: the items are counted whether or not the
\* completion is computed from them
ProgressOfCounted(explicit, items, decisions, content) ==
    LET fallback == explicit = None /\ items # <<>>
        completed == CountStatus(items, "complete")
        total == Len(items)
    IN  [ completion_pct |-> IF fallback THEN Ratio(completed, total) ELSE explicit,
          total_items |-> total,
          completed_items |-> completed,
          current_phase |-> _extract_pattern(content, PHASE_PATTERNS),
          current_status |-> _extract_pattern(content, STATUS_PATTERNS),
          current_focus |-> _extract_pattern(content, FOCUS_PATTERNS),
          last_updated |-> _extract_pattern(content, UPDATED_PATTERNS),
          next_action |-> _extract_pattern(content, NEXT_STEP_PATTERNS),
          next_steps |-> _extract_next_steps(content),
          items |-> items,
          decisions |-> decisions,
          has_pending_decision |-> Len(decisions) > 0 ]

\* ProjectProgress(...) built from the results of the extractors
ProgressOf(explicit, items, decisions, content) ==
    LET fallback == explicit = None /\ items # <<>>
        completed == CountStatus(items, "complete")
        total == Len(items)
    IN  [ completion_pct |-> IF fallback THEN Ratio(completed, total) ELSE explicit,
          total_items |-> IF fallback THEN total ELSE 0,
          completed_items |-> IF fallback THEN completed ELSE 0,
          current_phase |-> _extract_pattern(content, PHASE_PATTERNS),
          current_status |-> _extract_pattern(content, STATUS_PATTERNS),
          current_focus |-> _extract_pattern(content, FOCUS_PATTERNS),
          last_updated |-> _extract_pattern(content, UPDATED_PATTERNS),
          next_action |-> _extract_pattern(content, NEXT_STEP_PATTERNS),
          next_steps |-> _extract_next_steps(content),
          items |-> items,
          decisions |-> decisions,
          has_pending_decision |-> Len(decisions) > 0 ]

parse_content(content, source_file) ==
    ProgressOf(_extract_completion(content),
               _extract_checkboxes(content, source_file),
               _extract_decisions(content, source_file), content)

(***************************************************************************)
(* _merge_progress and parse_project                                       *)
(***************************************************************************)
\* faulty variant of Truthy: an empty string counts as a value
NotNone(t) == t # NoneStr

\* truth value of an Optional[str]: neither None nor ""
Truthy(t) == t # NoneStr /\ t # <<>>

InSeq(x, seq) == \E i \in 1..Len(seq) : seq[i] = x

\* faulty variant of AppendUnseen: every step of the new progress is appended
AppendAll(steps, new_steps) == steps \o new_steps

\* the loop "if step not in seen: append; seen.add(step)"
RECURSIVE AppendUnseen(_, _)
AppendUnseen(steps, new_steps) ==
    IF new_steps = <<>> THEN steps
    ELSE AppendUnseen(IF InSeq(Head(new_steps), steps) THEN steps
                      ELSE Append(steps, Head(new_steps)),
                      Tail(new_steps))

\* faulty variant of Replaces: the value of the last file read wins
ReplacesWhenSet(base, new) == new.completion_pct # None

\* new.completion_pct replaces the running value
Replaces(base, new) ==
    /\ new.completion_pct # None
    /\ base.completion_pct = None \/ FracLess(base.completion_pct, new.completion_pct)

\* faulty variant of _merge_progress: has_pending_decision is taken from the
\* file merged last instead of being recomputed from the merged decisions
_merge_progress_flag_of_new(base, new) ==
    [ completion_pct |-> IF Replaces(base, new) THEN new.completion_pct ELSE base.completion_pct,
      total_items |-> IF Replaces(base, new) THEN new.total_items ELSE base.total_items,
      completed_items |-> IF Replaces(base, new) THEN new.completed_items
                          ELSE base.completed_items,
      current_phase |-> IF Truthy(new.current_phase) THEN new.current_phase
                        ELSE base.current_phase,
      current_status |-> IF Truthy(new.current_status) THEN new.current_status
                         ELSE base.current_status,
      current_focus |-> IF Truthy(new.current_focus) THEN new.current_focus
                        ELSE base.current_focus,
      last_updated |-> IF Truthy(new.last_updated) THEN new.last_updated
                       ELSE base.last_updated,
      next_action |-> IF Truthy(new.next_action) THEN new.next_action ELSE base.next_action,
      next_steps |-> AppendUnseen(base.next_steps, new.next_steps),
      items |-> base.items \o new.items,
      decisions |-> base.decisions \o new.decisions,
      has_pending_decision |-> new.has_pending_decision ]

\* faulty variant of _merge_progress: the items of the new progress replace
\* the running list instead of being added to it
_merge_progress_items_of_new(base, new) ==
    [ _merge_progress_flag_of_new(base, new)
        EXCEPT !.items = IF new.items # <<>> THEN new.items ELSE base.items,
               !.has_pending_decision = Len(base.decisions \o new.decisions) > 0 ]

_merge_progress(base, new) ==
    LET decisions == base.decisions \o new.decisions IN
    [ completion_pct |-> IF Replaces(base, new) THEN new.completion_pct ELSE base.completion_pct,
      total_items |-> IF Replaces(base, new) THEN new.total_items ELSE base.total_items,
      completed_items |-> IF Replaces(base, new) THEN new.completed_items
                          ELSE base.completed_items,
      current_phase |-> IF Truthy(new.current_phase) THEN new.current_phase
                        ELSE base.current_phase,
      current_status |-> IF Truthy(new.current_status) THEN new.current_status
                         ELSE base.current_status,
      current_focus |-> IF Truthy(new.current_focus) THEN new.current_focus
                        ELSE base.current_focus,
      last_updated |-> IF Truthy(new.last_updated) THEN new.last_updated
                       ELSE base.last_updated,
      next_action |-> IF Truthy(new.next_action) THEN new.next_action ELSE base.next_action,
      next_steps |-> AppendUnseen(base.next_steps, new.next_steps),
      items |-> base.items \o new.items,
      decisions |-> decisions,
      has_pending_decision |-> Len(decisions) > 0 ]

\* parse_project: the fixed list of file names
progress_files ==
    <<"TODO.md", "PROGRESS.md", "ROADMAP.md", "STATUS.md", "DEVELOPMENT-STATUS.md", "FUTURE.md">>

(***************************************************************************)
(* ContinuePromptGenerator                                                 *)
(***************************************************************************)
NoDecision == <<>>

\* f"cd {project_path} && claude --resume"
ResumeCommand(project_path) ==
    <<"cd", " ", project_path, " ", "&&", " ", "claude", " ", "--resume">>

\* "\n".join(parts)
RECURSIVE JoinParts(_)
JoinParts(parts) ==
    IF parts = <<>> THEN <<>>
    ELSE IF Len(parts) = 1 THEN parts[1]
    ELSE parts[1] \o <<"\n">> \o JoinParts(Tail(parts))

\* f"{x:.0f}": the float rounded to an integer, ties to even
RoundHalfEven(p) ==
    LET q == p[1] \div p[2]
        r == p[1] % p[2]
    IN  IF 2 * r < p[2] THEN q
        ELSE IF 2 * r > p[2] THEN q + 1
        ELSE IF q % 2 = 0 THEN q ELSE q + 1

\* faulty variant of FirstN: the list is not cut
WholeList(seq, n) == seq

\* the first n elements of a list: seq[:n]
FirstN(seq, n) == SubSeq(seq, 1, Min(n, Len(seq)))

\* faulty variant of ItemsWithStatus: every item that is not complete
ItemsNotComplete(items, status) == SelectSeq(items, LAMBDA i : i.status # "complete")

RECURSIVE ItemsWithStatus(_, _)
ItemsWithStatus(items, status) ==
    IF items = <<>> THEN <<>>
    ELSE (IF Head(items).status = status THEN <<Head(items)>> ELSE <<>>)
         \o ItemsWithStatus(Tail(items), status)

\* set(i.source_file for i in progress.items if i.source_file)
SourceFiles(items) ==
    { items[i].source_file : i \in { j \in 1..Len(items) : items[j].source_file # NoFile } }

\* the orders in which iterating a set may yield its elements
Orders(S) == { o \in [1..Cardinality(S) -> S] : \A x \in S : \E i \in DOMAIN o : o[i] = x }

\* ', '.join(ref_files)
RECURSIVE JoinComma(_)
JoinComma(names) ==
    IF names = <<>> THEN <<>>
    ELSE IF Len(names) = 1 THEN <<names[1]>>
    ELSE <<names[1], ", ">> \o JoinComma(Tail(names))

PromptStepsCap == 3
PromptItemsCap == 3

_generate_simple(project_path) ==
    [ mode |-> "simple",
      command |-> ResumeCommand(project_path),
      prompt_text |-> NoneStr,
      has_decision |-> FALSE,
      decision |-> NoDecision ]

\* ref_order is the order in which the set of source files is iterated
_generate_context(project_path, project_name, progress, ref_order) ==
    LET steps == FirstN(progress.next_steps, PromptStepsCap)
        in_progress_items == FirstN(ItemsWithStatus(progress.items, "in_progress"),
                                    PromptItemsCap)
        parts ==
            << <<"Continuing work on ", project_name, ".">> >>
            \o (IF Truthy(progress.current_phase)
                THEN << <<"Current phase: ">> \o progress.current_phase >> ELSE <<>>)
            \o (IF progress.completion_pct # None
                THEN << <<"Progress: ", ToString(RoundHalfEven(progress.completion_pct)),
                          "% complete">> >>
                ELSE <<>>)
            \o (IF Truthy(progress.current_focus)
                THEN << <<"Focus: ">> \o progress.current_focus >> ELSE <<>>)
            \o (IF Truthy(progress.next_action)
                THEN << <<"\n", "Next action: ">> \o progress.next_action >>
                ELSE IF progress.next_steps # <<>>
                THEN << <<"\n", "Next steps:">> >>
                     \o [ i \in 1..Len(steps) |-> <<"  - ">> \o steps[i] ]
                ELSE <<>>)
            \o (IF in_progress_items # <<>>
                THEN << <<"\n", "In progress:">> >>
                     \o [ i \in 1..Len(in_progress_items) |->
                             <<"  - ">> \o in_progress_items[i].content ]
                ELSE <<>>)
            \o (IF ref_order # <<>>
                THEN << <<"\n", "Relevant files: ">> \o JoinComma(ref_order) >>
                ELSE <<>>)
    IN  [ mode |-> "context",
          command |-> ResumeCommand(project_path),
          prompt_text |-> JoinParts(parts),
          has_decision |-> FALSE,
          decision |-> NoDecision ]

\* faulty variant of _generate_decision_prompt: the last decision is surfaced
_generate_decision_prompt_last(project_path, project_name, progress) ==
    LET decision == progress.decisions[Len(progress.decisions)]
        parts ==
            << <<"Continuing work on ", project_name, ".">>,
               <<"\n", "DECISION REQUIRED: ">> \o decision.question,
               <<"\n", "Options:">> >>
            \o [ i \in 1..Len(decision.options) |-> <<"  - ">> \o decision.options[i] ]
            \o (IF Truthy(decision.recommendation)
                THEN << <<"\n", "Recommendation: ">> \o decision.recommendation >>
                ELSE <<>>)
            \o << <<"\n", "Please confirm which option to proceed with, or provide your preference.">> >>
    IN  [ mode |-> "decision",
          command |-> ResumeCommand(project_path),
          prompt_text |-> JoinParts(parts),
          has_decision |-> TRUE,
          decision |-> <<decision>> ]

_generate_decision_prompt(project_path, project_name, progress) ==
    LET decision == progress.decisions[1]
        parts ==
            << <<"Continuing work on ", project_name, ".">>,
               <<"\n", "DECISION REQUIRED: ">> \o decision.question,
               <<"\n", "Options:">> >>
            \o [ i \in 1..Len(decision.options) |-> <<"  - ">> \o decision.options[i] ]
            \o (IF Truthy(decision.recommendation)
                THEN << <<"\n", "Recommendation: ">> \o decision.recommendation >>
                ELSE <<>>)
            \o << <<"\n", "Please confirm which option to proceed with, or provide your preference.">> >>
    IN  [ mode |-> "decision",
          command |-> ResumeCommand(project_path),
          prompt_text |-> JoinParts(parts),
          has_decision |-> TRUE,
          decision |-> <<decision>> ]

PromptModes == {"simple", "context", "decision"}

\* faulty variant of generate: the requested simple mode is honoured before
\* the pending decision is looked at
generate_simple_first(project_path, project_name, progress, mode, ref_order) ==
    IF mode = "simple"
    THEN _generate_simple(project_path)
    ELSE IF progress.has_pending_decision /\ progress.decisions # <<>>
    THEN _generate_decision_prompt(project_path, project_name, progress)
    ELSE _generate_context(project_path, project_name, progress, ref_order)

generate(project_path, project_name, progress, mode, ref_order) ==
    IF progress.has_pending_decision /\ progress.decisions # <<>>
    THEN _generate_decision_prompt(project_path, project_name, progress)
    ELSE IF mode = "simple"
    THEN _generate_simple(project_path)
    ELSE _generate_context(project_path, project_name, progress, ref_order)

(***************************************************************************)
(* Project.health_score                                                    *)
(***************************************************************************)
\* an unset column is the empty tuple, a set one the 1-tuple of its value
Unset == <<>>
IsTrue(flag) == flag = <<TRUE>>

NoType == "<None>"

\* percentages whose float lies just below n/d and whose product with 0.3
\* would be an integer: Python evaluates (1/3)*100*0.3 to 9.999999999999998,
\* (2/3)*100*0.3 to 19.999999999999996 and (1/6)*100*0.3 to 4.999999999999999
RoundsBelow == { <<100, 3>>, <<200, 3>>, <<50, 3>> }

\* int(completion_pct * 0.3) on the float
IntTimes03(p) ==
    LET exact == (3 * p[1]) \div (10 * p[2]) IN
    IF p \in RoundsBelow /\ (3 * p[1]) % (10 * p[2]) = 0 THEN exact - 1 ELSE exact

\* the points of the "Recent activity" step; days_ago is
\* (datetime.utcnow() - last_activity).days
ActivityPoints(last_activity) ==
    IF last_activity = Unset THEN 0
    ELSE LET days_ago == last_activity[1] IN
         IF days_ago <= 7 THEN 20
         ELSE IF days_ago <= 14 THEN 15
         ELSE IF days_ago <= 30 THEN 10
         ELSE IF days_ago <= 60 THEN 5
         ELSE 0

\* faulty variant of health_score: TODO.md and PROGRESS.md earn 10 points each
health_score_per_file(self) ==
    LET s1 == IF self.completion_pct # None THEN IntTimes03(self.completion_pct) ELSE 0
        s2 == s1 + (IF IsTrue(self.has_claude_md) THEN 10 ELSE 0)
        s3 == s2 + (IF IsTrue(self.has_todo) THEN 10 ELSE 0)
                 + (IF IsTrue(self.has_progress) THEN 10 ELSE 0)
        s4 == s3 + ActivityPoints(self.last_activity)
        s5 == s4 + (IF ~ IsTrue(self.has_pending_decision) THEN 10 ELSE 0)
        s6 == s5 + (IF ~ IsTrue(self.git_dirty) THEN 10 ELSE 0)
        s7 == s6 + (IF self.project_type \notin {NoType, "", "generic"} THEN 10 ELSE 0)
    IN  Min(s7, 100)

\* faulty variant of health_score: the sum is returned without min(score, 100)
health_score_unclamped(self) ==
    LET s1 == IF self.completion_pct # None THEN IntTimes03(self.completion_pct) ELSE 0
        s2 == s1 + (IF IsTrue(self.has_claude_md) THEN 10 ELSE 0)
        s3 == s2 + (IF IsTrue(self.has_todo) \/ IsTrue(self.has_progress) THEN 10 ELSE 0)
        s4 == s3 + ActivityPoints(self.last_activity)
        s5 == s4 + (IF ~ IsTrue(self.has_pending_decision) THEN 10 ELSE 0)
        s6 == s5 + (IF ~ IsTrue(self.git_dirty) THEN 10 ELSE 0)
        s7 == s6 + (IF self.project_type \notin {NoType, "", "generic"} THEN 10 ELSE 0)
    IN  s7

health_score(self) ==
    LET s1 == IF self.completion_pct # None THEN IntTimes03(self.completion_pct) ELSE 0
        s2 == s1 + (IF IsTrue(self.has_claude_md) THEN 10 ELSE 0)
        s3 == s2 + (IF IsTrue(self.has_todo) \/ IsTrue(self.has_progress) THEN 10 ELSE 0)
        s4 == s3 + ActivityPoints(self.last_activity)
        s5 == s4 + (IF ~ IsTrue(self.has_pending_decision) THEN 10 ELSE 0)
        s6 == s5 + (IF ~ IsTrue(self.git_dirty) THEN 10 ELSE 0)
        s7 == s6 + (IF self.project_type \notin {NoType, "", "generic"} THEN 10 ELSE 0)
    IN  Min(s7, 100)

(***************************************************************************)
(* The documents the parser is run on                                      *)
(***************************************************************************)
\* lines about completion: checklist lines and explicit completion text
CompletionLines ==
    { <<"-", " ", "[", "x", "]", " ", "Task">>,
      <<"-", " ", "[", " ", "]", " ", "Task">>,
      <<"-", " ", "[", "X", "]", " ", "Task", " ", "BLOCKED">>,
      <<"-", " ", "[", " ", "]", " ", "Complete", " ", "docs">>,
      <<"-", " ", "[", "U+2713", "]", " ", "Task">>,
      <<"-", " ", "[", "maybe", "]", " ", "Task">>,
      <<"-", " ", "[", "]", " ", "Task">>,
      <<"-", " ", "[", "U+2026", "]", " ", "Task">>,
      <<"3", " ", "of", " ", "4", " ", "tasks", " ", "complete">>,
      <<"0", " ", "of", " ", "0", " ", "done">>,
      <<"9", " ", "of", " ", "8", " ", "done">>,
      <<"finished", ":", " ", "6", "/", "8">>,
      <<"50", "%">>,
      <<"150", "%">>,
      <<"Notes">> }

\* lines about decisions
DecisionLines ==
    { <<"##", " ", "Option", " ", "A", ":", " ", "Postgres">>,
      <<"###", " ", "Option", " ", "B", ":", " ", "SQLite">>,
      <<"###", " ", "option", " ", "c", " ", "Files">>,
      <<"##", " ", "Option", " ", "A", ":">>,
      <<"Option", " ", "A", ":", " ", "Postgres">>,
      <<"Recommended", ":", " ", "Postgres">>,
      <<"Decision", " ", "Point", ":", " ", "Storage">>,
      <<"-", " ", "[", " ", "]", " ", "Task">> }

\* "\n".join(lines)
RECURSIVE JoinLines(_)
JoinLines(lines) ==
    IF lines = <<>> THEN <<>>
    ELSE IF Len(lines) = 1 THEN lines[1]
    ELSE lines[1] \o <<"\n">> \o JoinLines(Tail(lines))

SeqsUpTo(S, n) == UNION { [1..k -> S] : k \in 0..n }

DocsOf(lineSet, n) == { JoinLines(ls) : ls \in SeqsUpTo(lineSet, n) }

\* lines about the labelled fields and the next steps
FieldLines ==
    { <<"Current", " ", "Phase", ":", " ", "Build">>,
      <<"**", "Status", "**", ":", " ", "Active">>,
      <<"Current", " ", "Focus", ":", " ", "Auth">>,
      <<"Next", " ", "Step", ":", " ", "Deploy">>,
      <<"##", " ", "Next", " ", "Steps">>,
      <<"-", " ", "Deploy">>,
      <<"-", " ", "[", " ", "]", " ", "Task", " ", "in", " ", "progress">> }

\* checklist lines whose text holds status indicators: the first symbol
\* indicator as the source file spells it, two indicators of different
\* statuses, an indicator against the mark, an indicator inside a word
StatusLines ==
    { <<"-", " ", "[", " ", "]", " ", "Task", " ", "U+00E2", "U+0153", "U+2026">>,
      <<"-", " ", "[", " ", "]", " ", "Blocked", " ", "in", " ", "progress">>,
      <<"-", " ", "[", "x", "]", " ", "Task", " ", "pending">>,
      <<"-", " ", "[", " ", "]", " ", "incomplete">> }

\* checklist lines whose text holds priority keywords: one keyword, two
\* keywords of different priorities, a keyword inside a word, none
PriorityLines ==
    { <<"-", " ", "[", " ", "]", " ", "HIGH", " ", "priority", " ", "task">>,
      <<"-", " ", "[", " ", "]", " ", "low", " ", "then", " ", "Critical">>,
      <<"-", " ", "[", "x", "]", " ", "Immediate", " ", "fix">>,
      <<"-", " ", "[", " ", "]", " ", "Task", " ", "medium">>,
      <<"-", " ", "[", " ", "]", " ", "Follow", " ", "up">>,
      <<"-", " ", "[", " ", "]", " ", "Task">> }

\* documents with a next-steps section: a heading or an ordinary line, at
\* most one blank line, then the first k of seven bullets, with an ordinary
\* line after the first `cut` bullets when cut > 0
StepBullets ==
    << <<"-", " ", "Build">>, <<"*", " ", "Deploy">>, <<"-", " ", "Test">>,
       <<"-", " ", "Ship">>, <<"*", " ", "Auth">>, <<"-", " ", "API">>,
       <<"-", " ", "Task">> >>

StepDocs ==
    { JoinLines(<<head>> \o gap
                \o (IF cut > 0 /\ cut <= k
                    THEN SubSeq(StepBullets, 1, cut) \o << <<"Notes">> >>
                         \o SubSeq(StepBullets, cut + 1, k)
                    ELSE SubSeq(StepBullets, 1, k))) :
        head \in { <<"##", " ", "Next", " ", "Steps">>,
                   <<"###", " ", "Immediate", " ", "next", " ", "step">>,
                   <<"Notes">> },
        gap \in { <<>>, << <<>> >> },
        k \in 0..Len(StepBullets),
        cut \in {0, 2, 6} }

\* a decision needs two option headings, so decision documents get one line
\* more than the others
Docs ==
    DocsOf(CompletionLines, MaxLines)
    \cup DocsOf(DecisionLines, MaxLines + 1)
    \cup DocsOf(FieldLines, MaxLines)
    \cup DocsOf(StatusLines, MaxLines)
    \cup DocsOf(PriorityLines, MaxLines)
    \cup StepDocs

\* the contents a progress file of a project may have
FileDocs ==
    { JoinLines(ls) : ls \in
        { << <<"-", " ", "[", "x", "]", " ", "Task">>, <<"-", " ", "[", " ", "]", " ", "Task">> >>,
          << <<"-", " ", "[", "x", "]", " ", "Task">> >>,
          << <<"150", "%">> >>,
          << <<"##", " ", "Option", " ", "A", ":", " ", "Postgres">>,
             <<"###", " ", "Option", " ", "B", ":", " ", "SQLite">>,
             <<"Recommended", ":", " ", "Postgres">> >>,
          << <<"##", " ", "Next", " ", "Steps">>, <<"-", " ", "Build">>,
             <<"-", " ", "Deploy">>, <<"-", " ", "Build">> >>,
          << <<"Current", " ", "Phase", ":", " ", "Ship">>,
             <<"**", "Status", "**", ":", " ", "Active">>,
             <<"Current", " ", "Focus", ":", " ", "Auth">>,
             <<"Next", " ", "Step", ":", " ", "Deploy">>,
             <<"Last", " ", "Updated", ":", " ", "Monday">> >>,
          << <<"Current", " ", "Focus", ":", " ", "API">>,
             <<"Last", " ", "Updated", ":", " ", "Friday">>,
             <<"Status", ":", " ", "Idle">> >>,
          << <<"Notes">>, <<"Current", " ", "Phase", ":", " ">> >>,
          << <<"##", " ", "Next", " ", "Steps">>, <<"-", " ", "Deploy">>,
             <<"-", " ", "Build">>, <<"-", " ", "Test">>, <<"-", " ", "Ship">> >>,
          << <<"-", " ", "[", " ", "]", " ", "Task", " ", "in", " ", "progress">>,
             <<"-", " ", "[", " ", "]", " ", "Task">>,
             <<"-", " ", "[", " ", "]", " ", "docs", " ", "in", " ", "progress">>,
             <<"-", " ", "[", "x", "]", " ", "A", " ", "in", " ", "progress">>,
             <<"-", " ", "[", " ", "]", " ", "B", " ", "in", " ", "progress">> >>,
          << <<"Decision", " ", "Point", ":", " ", "Storage">>,
             <<"##", " ", "Option", " ", "A", ":", " ", "Files">>,
             <<"###", " ", "Option", " ", "C", ":", " ", "SQLite">> >> } }

\* the calls of parse_content that are made: a document without file name,
\* or the content of a progress file under the name of that file
ParseCalls ==
    { <<d, NoFile>> : d \in Docs }
    \cup { <<d, progress_files[f]>> : d \in FileDocs, f \in 1..Len(progress_files) }

\* parse_content of every call, evaluated once
Parsed == [ call \in ParseCalls |-> parse_content(call[1], call[2]) ]

\* parse_file for a file that exists
parse_file(f, content) == Parsed[<<content, progress_files[f]>>]

(***************************************************************************)
(* The projects health_score is read on                                    *)
(***************************************************************************)
\* (datetime.utcnow() - last_activity).days around the steps of the scale
DaysAgo == {0, 7, 8, 14, 15, 30, 31, 60, 61}

OptBool == {Unset, <<TRUE>>, <<FALSE>>}

\* completion percentages of the documented range [0, 100]
CompletionValues == { <<0, 1>>, <<100, 3>>, <<50, 1>>, <<100, 1>> }

\* Project(...) built directly from keyword arguments: every column may be
\* left unset
ConstructedProjects ==
    [ completion_pct : {None} \cup CompletionValues,
      has_pending_decision : OptBool,
      has_claude_md : OptBool,
      has_todo : OptBool,
      has_progress : OptBool,
      last_activity : {Unset} \cup { <<d>> : d \in DaysAgo },
      git_dirty : OptBool,
      project_type : {NoType, "generic", "python"} ]

\* ProjectInfo as the detector yields it: has_todo and has_progress tell
\* whether TODO.md and PROGRESS.md exist in the project
DetectedInfos(todo_exists, progress_exists) ==
    [ has_claude_md : BOOLEAN,
      has_todo : {todo_exists},
      has_progress : {progress_exists},
      last_commit_date : {Unset} \cup { <<d>> : d \in DaysAgo },
      git_dirty : BOOLEAN,
      project_type : {"generic", "node"} ]

\* Project(): nothing set
NoProject ==
    [ completion_pct |-> None,
      has_pending_decision |-> Unset,
      has_claude_md |-> Unset,
      has_todo |-> Unset,
      has_progress |-> Unset,
      last_activity |-> Unset,
      git_dirty |-> Unset,
      project_type |-> NoType ]

\* the assignments of scan to the Project row
ScannedProject(info, proj_progress) ==
    [ completion_pct |-> proj_progress.completion_pct,
      has_pending_decision |-> <<proj_progress.has_pending_decision>>,
      has_claude_md |-> <<info.has_claude_md>>,
      has_todo |-> <<info.has_todo>>,
      has_progress |-> <<info.has_progress>>,
      last_activity |-> info.last_commit_date,
      git_dirty |-> <<info.git_dirty>>,
      project_type |-> info.project_type ]

(***************************************************************************)
(* State                                                                   *)
(***************************************************************************)
VARIABLES
    pc,        \* what the running command is doing
    fileIdx,   \* parse_project: index into progress_files of the next file
    nread,     \* parse_project: number of files read so far
    doc,       \* the content handed to the last parse_content call
    parsed,    \* the ProjectProgress returned by the last parse_content call
    merged,    \* parse_project: the accumulator `merged`
    seen,      \* history: completion_pct of every progress merged so far
    read,      \* history: the file name and the progress of every file read
    requested, \* the mode argument of the last generate call
    prompt,    \* the ContinuePrompt returned by generate
    again,     \* what running the continue command once more returned
    project,   \* the Project row health_score is read on
    table,     \* urgent: the rows of the projects table
    now,       \* urgent: the day datetime.utcnow() falls on
    weighting, \* urgent: the weights the urgency scorer was built with
    listing,   \* urgent: the rows shown, in the order shown
    db,        \* scan: the projects, progress_items and scan_history tables
    stats,     \* scan: the counters the last scan printed
    scans,     \* history: the projects every scan detected, with their parse
    batch,     \* generate_batch_script: the arguments of the last call
    script,    \* generate_batch_script: the script returned
    merging,   \* _merge_progress: the two argument objects before and after a
               \* call, and the object the call returned
    status_file \* sync_to_file: PM-STATUS.md before the call, the keyword
               \* arguments, and PM-STATUS.md after the call

\* the state of the parser, the generator and the health scorer
parserVars == <<pc, fileIdx, nread, doc, parsed, merged, seen, read, requested, prompt, again, project>>

parserVarsButPc == <<fileIdx, nread, doc, parsed, merged, seen, read, requested, prompt, again,
                     project>>

\* the state of the other commands
extVars == <<table, now, weighting, listing, db, stats, scans, batch, script, merging,
            status_file>>

\* nothing was listed
NoListing == <<"<None>">>

\* init_db() on a new database file
EmptyDb == [ projects |-> <<>>, progress_items |-> <<>>, scan_history |-> <<>> ]

NoStats == [ new |-> 0, updated |-> 0, client |-> 0, internal |-> 0, tool |-> 0 ]

\* generate_batch_script was not called
NoBatch == [ projects |-> <<>>, parallel |-> 1 ]

\* _merge_progress was not called
NoMerging ==
    [ before |-> [ base |-> EmptyProgress, new |-> EmptyProgress ],
      after |-> [ base |-> EmptyProgress, new |-> EmptyProgress ],
      returned |-> "<None>" ]

\* sync_to_file was not called; a file that does not exist is <<>>, one that
\* exists is <<content>>
NoSync == [ before |-> <<>>, kwargs |-> <<>>, after |-> <<>> ]

\* the other commands have not run
InitExt ==
    /\ table = <<>>
    /\ now = 0
    /\ weighting = <<>>
    /\ listing = NoListing
    /\ db = EmptyDb
    /\ stats = NoStats
    /\ scans = <<>>
    /\ batch = NoBatch
    /\ script = <<>>
    /\ merging = NoMerging
    /\ status_file = NoSync

vars == <<pc, fileIdx, nread, doc, parsed, merged, seen, read, requested, prompt, again, project,
          table, now, weighting, listing, db, stats, scans, batch, script, merging,
            status_file>>

ProjectPath == "/work/app"
ProjectName == "app"

NoMode == "<None>"

NoPrompt ==
    [ mode |-> NoMode,
      command |-> <<>>,
      prompt_text |-> NoneStr,
      has_decision |-> FALSE,
      decision |-> NoDecision ]

\* nothing was run a second time
NoRerun == [ progress |-> EmptyProgress, prompt |-> NoPrompt ]

\* the position of a file name in the fixed list of parse_project
FilePosition(name) == CHOOSE n \in 1..Len(progress_files) : progress_files[n] = name

\* parse_project on a project whose existing progress files are `files`, in
\* the order of progress_files: the loop from file k on, merged being the
\* accumulator
RECURSIVE ParseProjectFrom(_, _, _)
ParseProjectFrom(files, k, acc) ==
    IF k > Len(files) THEN acc
    ELSE ParseProjectFrom(files, k + 1,
                          _merge_progress(acc, parse_file(FilePosition(files[k].file),
                                                          files[k].content)))

Init ==
    /\ pc = "idle"
    /\ fileIdx = 0
    /\ nread = 0
    /\ doc = <<>>
    /\ parsed = EmptyProgress
    /\ merged = EmptyProgress
    /\ seen = <<>>
    /\ read = <<>>
    /\ requested = NoMode
    /\ prompt = NoPrompt
    /\ again = NoRerun
    /\ project = NoProject
    /\ InitExt

\* a direct call parser.parse_content(content)
ParseContent ==
    /\ pc = "idle"
    /\ \E content \in Docs :
          /\ doc' = content
          /\ parsed' = Parsed[<<content, NoFile>>]
    /\ pc' = "parsed"
    /\ UNCHANGED <<fileIdx, nread, merged, seen, read, requested, prompt, again, project>>
    /\ UNCHANGED extVars

\* a direct call parser.parse_file(path) for one of the progress file names:
\* a file that does not exist gives ProjectProgress(), one that exists is
\* read and parsed under its name
ParseFile ==
    /\ pc = "idle"
    /\ \E f \in 1..Len(progress_files) :
          /\ fileIdx' = f
          /\ \/ /\ doc' = <<>>
                /\ parsed' = EmptyProgress
                /\ pc' = "missing-file"
             \/ /\ \E content \in FileDocs :
                      /\ doc' = content
                      /\ parsed' = parse_file(f, content)
                /\ pc' = "parsed-file"
    /\ UNCHANGED <<nread, merged, seen, read, requested, prompt, again, project>>
    /\ UNCHANGED extVars

\* parse_project: merged = ProjectProgress()
ParseProjectStart ==
    /\ pc = "idle"
    /\ merged' = EmptyProgress
    /\ fileIdx' = 1
    /\ nread' = 0
    /\ seen' = <<>>
    /\ read' = <<>>
    /\ pc' = "merging"
    /\ UNCHANGED <<doc, parsed, requested, prompt, again, project>>
    /\ UNCHANGED extVars

\* parse_project: one turn of the loop for a file that exists
ParseProjectFile ==
    /\ pc = "merging"
    /\ fileIdx <= Len(progress_files)
    /\ nread < MaxFiles
    /\ \E content \in FileDocs :
          /\ doc' = content
          /\ parsed' = parse_file(fileIdx, content)
          /\ merged' = _merge_progress(merged, parsed')
          /\ seen' = Append(seen, parsed'.completion_pct)
          /\ read' = Append(read, [ file |-> progress_files[fileIdx], content |-> content,
                                      progress |-> parsed' ])
    /\ fileIdx' = fileIdx + 1
    /\ nread' = nread + 1
    /\ UNCHANGED <<pc, requested, prompt, again, project>>
    /\ UNCHANGED extVars

\* parse_project: one turn of the loop for a file that does not exist
ParseProjectSkip ==
    /\ pc = "merging"
    /\ fileIdx <= Len(progress_files)
    /\ fileIdx' = fileIdx + 1
    /\ UNCHANGED <<pc, nread, doc, parsed, merged, seen, read, requested, prompt, again, project>>
    /\ UNCHANGED extVars

\* parse_project: return merged
ParseProjectReturn ==
    /\ pc = "merging"
    /\ fileIdx > Len(progress_files)
    /\ pc' = "merged"
    /\ UNCHANGED <<fileIdx, nread, doc, parsed, merged, seen, read, requested, prompt, again, project>>
    /\ UNCHANGED extVars

\* the ProjectProgress the caller holds
Held == IF pc = "parsed" THEN parsed ELSE merged

\* generator.generate(path, name, progress, mode)
Generate ==
    /\ pc \in {"parsed", "merged"}
    /\ \E mode \in PromptModes : \E ref_order \in Orders(SourceFiles(Held.items)) :
          /\ requested' = mode
          /\ prompt' = generate(ProjectPath, ProjectName, Held, mode, ref_order)
    /\ pc' = IF pc = "parsed" THEN "prompted-parsed" ELSE "prompted"
    /\ UNCHANGED <<fileIdx, nread, doc, parsed, merged, seen, read, again, project>>
    /\ UNCHANGED extVars

\* the continue command is run once more on the unchanged project, with the
\* same mode: parse_project, then generate, in a new interpreter, whose
\* iteration order over the set of source files is its own
Rerun ==
    /\ pc = "prompted"
    /\ LET progress == ParseProjectFrom(read, 1, EmptyProgress) IN
       \E ref_order \in Orders(SourceFiles(progress.items)) :
          again' = [ progress |-> progress,
                     prompt |-> generate(ProjectPath, ProjectName, progress, requested,
                                         ref_order) ]
    /\ pc' = "rerun"
    /\ UNCHANGED <<fileIdx, nread, doc, parsed, merged, seen, read, requested, prompt, project>>
    /\ UNCHANGED extVars

\* scan: store the parsed state and the detected attributes in the row; the
\* loop then moves on and drops proj_progress
ScanStore ==
    /\ pc = "merged"
    /\ LET exists(name) == \E k \in 1..Len(read) : read[k].file = name IN
       \E info \in DetectedInfos(exists("TODO.md"), exists("PROGRESS.md")) :
          project' = ScannedProject(info, merged)
    /\ pc' = "scanned"
    /\ fileIdx' = 0
    /\ nread' = 0
    /\ doc' = <<>>
    /\ parsed' = EmptyProgress
    /\ merged' = EmptyProgress
    /\ seen' = <<>>
    /\ read' = <<>>
    /\ UNCHANGED <<requested, prompt, again>>
    /\ UNCHANGED extVars

\* Project(**kwargs)
ConstructProject ==
    /\ pc = "idle"
    /\ \E p \in ConstructedProjects : project' = p
    /\ pc' = "scanned"
    /\ UNCHANGED <<fileIdx, nread, doc, parsed, merged, seen, read, requested, prompt, again>>
    /\ UNCHANGED extVars

\* the command ends; its locals are gone
Finish ==
    /\ pc \in {"parsed", "parsed-file", "missing-file", "prompted", "prompted-parsed", "rerun", "scanned"}
    /\ pc' = "idle"
    /\ fileIdx' = 0
    /\ nread' = 0
    /\ doc' = <<>>
    /\ parsed' = EmptyProgress
    /\ merged' = EmptyProgress
    /\ seen' = <<>>
    /\ read' = <<>>
    /\ requested' = NoMode
    /\ prompt' = NoPrompt
    /\ again' = NoRerun
    /\ project' = NoProject
    /\ UNCHANGED extVars

Next ==
    \/ ParseContent
    \/ ParseFile
    \/ ParseProjectStart
    \/ ParseProjectFile
    \/ ParseProjectSkip
    \/ ParseProjectReturn
    \/ Generate
    \/ Rerun
    \/ ScanStore
    \/ ConstructProject
    \/ Finish

Spec == Init /\ [][Next]_vars

(***************************************************************************)
(* Properties of parse_content: completion                                 *)
(***************************************************************************)
\* a parse_content call has returned and its result is in `parsed`
Returned == pc \in {"parsed", "prompted-parsed"}

\* the document holds an "N of M ... complete" phrase (either order)
HasNofMPhrase(c) == \E i \in 1..Len(c) : Pattern1At(c, i) \/ Pattern2At(c, i)

\* the document holds a bare "P%"
HasPercent(c) == \E i \in 1..Len(c) : Pattern3Value(c, i) # None

\* the checkbox marks the specification recognizes, and those it counts as
\* checked: "- [ ]", "- [x]", "- [X]", "- [U+2713]"
SpecMarks == {" ", "x", "X", "U+2713"}
SpecCheckedMarks == {"x", "X", "U+2713"}

\* the mark of a line of the shape "- [m] text", "" for any other line
SpecMarkOf(line) ==
    LET i == SkipLead(line, 1) IN
    IF /\ i + 4 <= Len(line)
       /\ line[i] = "["
       /\ line[i + 1] \in SpecMarks
       /\ line[i + 2] = "]"
       /\ IsSpace(line[i + 3])
       /\ Strip(SubSeqFrom(line, i + 3)) # <<>>
    THEN line[i + 1] ELSE ""

\* K: the recognized checkbox lines; C: those carrying a checked mark
SpecCheckboxLines(c) ==
    { n \in 1..Len(SplitLines(c)) : SpecMarkOf(SplitLines(c)[n]) # "" }

SpecCheckedLines(c) ==
    { n \in SpecCheckboxLines(c) : SpecMarkOf(SplitLines(c)[n]) \in SpecCheckedMarks }

\* C1: for a document without explicit completion text (no "N of M ...
\* complete" phrase, no "P%") and with K >= 1 recognized checkbox lines of
\* which C carry a checked mark (x, X or check mark), parse_content returns
\* completion_pct = C/K*100, total_items = K and completed_items = C.
C1_ChecklistFallback ==
    (/\ Returned
     /\ ~ HasNofMPhrase(doc)
     /\ ~ HasPercent(doc)
     /\ SpecCheckboxLines(doc) # {})
    => /\ parsed.completion_pct =
              Ratio(Cardinality(SpecCheckedLines(doc)), Cardinality(SpecCheckboxLines(doc)))
       /\ parsed.total_items = Cardinality(SpecCheckboxLines(doc))
       /\ parsed.completed_items = Cardinality(SpecCheckedLines(doc))

\* every <<N, M>> with M > 0 of an "N of M ... complete" phrase of the document
NofMPhrases(c) ==
    { <<NumVal(c[i]), NumVal(c[NofMAt(c, i)])>> :
        i \in { j \in 1..Len(c) : Pattern1At(c, j) /\ NumVal(c[NofMAt(c, j)]) > 0 } }

\* C2: a document containing an "N of M ... complete/done/finished" phrase
\* with M > 0 yields completion_pct = N/M*100 of such a phrase, whatever bare
\* "P%" stands in the document.
C2_AnyNofMPhraseWins ==
    (Returned /\ NofMPhrases(doc) # {})
    => \E nm \in NofMPhrases(doc) : parsed.completion_pct = Ratio(nm[1], nm[2])

\* a percentage is unset or lies in [0, 100]
InRange(p) == p = None \/ (0 <= p[1] /\ p[1] <= 100 * p[2])

\* C3: every ProjectProgress produced by parse_content and every merged
\* ProjectProgress of parse_project has completion_pct unset or within
\* [0, 100].
C3_CompletionInRange == InRange(parsed.completion_pct) /\ InRange(merged.completion_pct)

(***************************************************************************)
(* Properties of the merge fold of parse_project                           *)
(***************************************************************************)
\* parse_project is folding, or has returned and the caller holds `merged`
Folding == pc \in {"merging", "merged", "prompted"}

\* the greatest of the completion values that are set, None when none is
MaxSeen(s) ==
    LET vals == { s[i] : i \in DOMAIN s } \ {None} IN
    IF vals = {} THEN None
    ELSE CHOOSE v \in vals : \A w \in vals : ~ FracLess(v, w)

\* C4: across the merge fold the running completion_pct equals the maximum of
\* the set completion values merged so far (unset only when all were unset),
\* in whatever order the files come; a merge step leaves it as it is or
\* replaces it by the new file's value, and then only by a strictly greater
\* one, so it never decreases.
C4_RunningMaximum ==
    /\ [](Folding => merged.completion_pct = MaxSeen(seen))
    /\ [][(pc = "merging" /\ pc' = "merging" /\ nread' = nread + 1)
            => \/ merged'.completion_pct = merged.completion_pct
               \/ /\ merged'.completion_pct = parsed'.completion_pct
                  /\ merged'.completion_pct # None
                  /\ \/ merged.completion_pct = None
                     \/ FracLess(merged.completion_pct, merged'.completion_pct)]_vars

\* a smaller value was merged after a greater one and the greater one stayed
C4_SmallerAfterGreater ==
    /\ pc = "merging"
    /\ Len(seen) = 2
    /\ seen[1] # None /\ seen[2] # None
    /\ FracLess(seen[2], seen[1])
    /\ merged.completion_pct = seen[1]

\* C10: in the ProjectProgress returned by parse_content and after every
\* _merge_progress step, has_pending_decision is true exactly when the
\* decisions list is non-empty.
C10_PendingIffDecisions ==
    /\ parsed.has_pending_decision <=> parsed.decisions # <<>>
    /\ merged.has_pending_decision <=> merged.decisions # <<>>

\* a file without decisions was merged after one with a decision
C10_DecisionKeptAcrossMerge ==
    /\ pc = "merging"
    /\ nread = 2
    /\ parsed.decisions = <<>>
    /\ ~ parsed.has_pending_decision
    /\ merged.decisions # <<>>
    /\ merged.has_pending_decision

(***************************************************************************)
(* Properties of parse_content: decisions                                  *)
(***************************************************************************)
\* a heading line that carries no text after its letter: the separator run
\* [:\s]+ of the pattern then crosses the line break and the following line
\* is taken as the text
TextlessHeading(l) == l # <<>> /\ OptionLetterAt(l, 1) > 0 /\ OptionAt(l, 1) = <<>>

\* the lines of the document that are an option heading, formatted
\* "Option <L>: <text>", in document order
RECURSIVE OptionHeadings(_)
OptionHeadings(lines) ==
    IF lines = <<>> THEN <<>>
    ELSE LET l == Head(lines) IN
         (IF l # <<>> /\ OptionAt(l, 1) # <<>>
          THEN <<FormatOption(l[OptionLetterAt(l, 1)], Captured(l, OptionAt(l, 1)))>>
          ELSE <<>>)
         \o OptionHeadings(Tail(lines))

\* C9: parse_content yields exactly one DecisionPoint when the document has
\* two or more option headings (matches of the heading pattern), its options
\* being every matched heading formatted "Option <L>: <text>" in document
\* order, and no decision when it has one heading or none; a parse never
\* yields more than one decision and a decision never has fewer than two
\* options.  When every heading carries its text on its own line the matched
\* headings are the heading lines of the document.
C9_DecisionNeedsTwoOptions ==
    Returned =>
        LET heads == OptionMatches(doc, 1)
            lines == SplitLines(doc)
        IN  /\ (\A n \in 1..Len(lines) : ~ TextlessHeading(lines[n]))
                  => heads = OptionHeadings(lines)
            /\ Len(parsed.decisions) <= 1
            /\ Len(heads) >= 2 => /\ Len(parsed.decisions) = 1
                                  /\ parsed.decisions[1].options = heads
            /\ Len(heads) <= 1 => parsed.decisions = <<>>
            /\ \A i \in 1..Len(parsed.decisions) : Len(parsed.decisions[i].options) >= 2

\* three headings make one decision with three options
C9_ThreeHeadingsOneDecision ==
    /\ Returned
    /\ Len(OptionHeadings(SplitLines(doc))) = 3
    /\ Len(parsed.decisions) = 1
    /\ Len(parsed.decisions[1].options) = 3

(***************************************************************************)
(* Properties of ContinuePromptGenerator.generate                          *)
(***************************************************************************)
\* generate has returned; the progress it was called with
Prompted == pc \in {"prompted", "prompted-parsed"}

PromptedWith == IF pc = "prompted-parsed" THEN parsed ELSE merged

\* C5: generate returns a decision-mode prompt (mode DECISION, has_decision
\* true, decision set) whenever progress.has_pending_decision is true,
\* whichever mode (simple, context or decision) was requested.
C5_PendingForcesDecisionMode ==
    (Prompted /\ PromptedWith.has_pending_decision)
    => /\ prompt.mode = "decision"
       /\ prompt.has_decision
       /\ prompt.decision = <<PromptedWith.decisions[1]>>

\* simple mode was requested for a project with a pending decision
C5_SimpleRequestedDecisionReturned ==
    /\ Prompted
    /\ requested = "simple"
    /\ PromptedWith.has_pending_decision
    /\ prompt.mode = "decision"
    /\ prompt.has_decision

\* C30: the prompt generate returns has mode DECISION exactly when
\* has_decision is true and decision is set, which is exactly when the
\* progress has has_pending_decision true and a non-empty decisions list;
\* otherwise its mode is SIMPLE with prompt_text unset when simple was
\* requested and CONTEXT for every other request, DECISION included; the
\* command is always 'cd <project_path> && claude --resume'.
C30_ModeAndCommand ==
    Prompted =>
        LET pending == PromptedWith.has_pending_decision /\ PromptedWith.decisions # <<>>
            decided == prompt.has_decision /\ prompt.decision # NoDecision
        IN  /\ (prompt.mode = "decision") <=> decided
            /\ decided <=> pending
            /\ (~pending /\ requested = "simple") =>
                   (prompt.mode = "simple" /\ prompt.prompt_text = NoneStr)
            /\ (~pending /\ requested # "simple") => prompt.mode = "context"
            /\ prompt.command
                 = <<"cd", " ", ProjectPath, " ", "&&", " ", "claude", " ", "--resume">>

\* decision mode was requested for a progress without decisions, and a
\* context prompt came back
C30_DecisionRequestedContextReturned ==
    /\ Prompted
    /\ requested = "decision"
    /\ PromptedWith.decisions = <<>>
    /\ prompt.mode = "context"
    /\ ~prompt.has_decision
    /\ prompt.prompt_text # NoneStr

(***************************************************************************)
(* Properties of Project.health_score                                      *)
(***************************************************************************)
\* a Project row exists: scan has stored it or it was constructed
Stored == pc = "scanned"

Points(b, n) == IF b THEN n ELSE 0

\* the recency points of the documented scale
RecencyPoints(p) ==
    IF p.last_activity = Unset THEN 0
    ELSE Points(p.last_activity[1] <= 7, 20)
         + Points(p.last_activity[1] > 7 /\ p.last_activity[1] <= 14, 15)
         + Points(p.last_activity[1] > 14 /\ p.last_activity[1] <= 30, 10)
         + Points(p.last_activity[1] > 30 /\ p.last_activity[1] <= 60, 5)

\* C6: health_score = min(100, floor(completion_pct * 0.3) [0 if unset]
\* + 10 if has_claude_md + 10 if has_todo or has_progress (once) + recency
\* points (<= 7 days: 20, <= 14: 15, <= 30: 10, <= 60: 5, more or unknown: 0)
\* + 10 if no pending decision + 10 if git not dirty + 10 if project_type is
\* set and not 'generic'); an unset flag counts as false.
C6_HealthScoreFormula ==
    Stored =>
        health_score(project) =
            Min(100,
                (IF project.completion_pct = None THEN 0 ELSE IntTimes03(project.completion_pct))
                + Points(project.has_claude_md = <<TRUE>>, 10)
                + Points(project.has_todo = <<TRUE>> \/ project.has_progress = <<TRUE>>, 10)
                + RecencyPoints(project)
                + Points(project.has_pending_decision # <<TRUE>>, 10)
                + Points(project.git_dirty # <<TRUE>>, 10)
                + Points(project.project_type # NoType /\ project.project_type # "generic", 10))

\* both progress files exist, some flags are unset: 9 + 10 + 15 + 10
C6_BothFilesCountOnce ==
    /\ Stored
    /\ project.completion_pct = <<100, 3>>
    /\ project.has_claude_md = Unset
    /\ project.has_todo = <<TRUE>>
    /\ project.has_progress = <<TRUE>>
    /\ project.last_activity = <<14>>
    /\ project.has_pending_decision = Unset
    /\ project.git_dirty = <<TRUE>>
    /\ project.project_type = "generic"
    /\ health_score(project) = 44

\* C7: two projects that differ only in git_dirty score exactly 10 apart
\* (clean = dirty + 10), and so do two projects that differ only in
\* has_pending_decision (no pending = pending + 10), whatever the other
\* attributes are.
C7_TenPointsApart ==
    Stored =>
        /\ health_score([project EXCEPT !.git_dirty = <<FALSE>>])
              = health_score([project EXCEPT !.git_dirty = <<TRUE>>]) + 10
        /\ health_score([project EXCEPT !.has_pending_decision = <<FALSE>>])
              = health_score([project EXCEPT !.has_pending_decision = <<TRUE>>]) + 10

\* C8: with the other attributes fixed health_score does not decrease when
\* completion_pct grows, and the score is an integer in 0..100, also for a
\* completion_pct above 100 and with every bonus applying together.
C8_MonotoneAndBounded ==
    Stored =>
        /\ health_score(project) \in 0..100
        /\ \A c, d \in (CompletionValues \cup {<<150, 1>>, project.completion_pct}) \ {None} :
              ~ FracLess(d, c)
                 => health_score([project EXCEPT !.completion_pct = c])
                       <= health_score([project EXCEPT !.completion_pct = d])

\* a stored completion above 100 with every bonus: the sum 115 is cut to 100
C8_AllBonusesAbove100 ==
    /\ Stored
    /\ project.completion_pct # None
    /\ FracLess(<<100, 1>>, project.completion_pct)
    /\ project.has_claude_md = <<TRUE>>
    /\ project.has_todo = <<TRUE>>
    /\ project.last_activity # Unset
    /\ project.last_activity[1] <= 7
    /\ project.has_pending_decision = <<FALSE>>
    /\ project.git_dirty = <<FALSE>>
    /\ project.project_type = "node"
    /\ health_score(project) = 100

(***************************************************************************)
(* Properties of _merge_progress: next_steps                               *)
(***************************************************************************)
\* no string occurs twice in the list
NoDuplicate(seq) == \A i, j \in 1..Len(seq) : seq[i] = seq[j] => i = j

\* the position of the first occurrence of x in seq
FirstAt(x, seq) == CHOOSE i \in 1..Len(seq) : seq[i] = x /\ \A j \in 1..(i - 1) : seq[j] # x

\* `after` is `before` with steps of `new` appended: the existing entries are
\* an untouched prefix, the appended ones are exactly the steps of `new` that
\* `before` did not hold, once each, in the order of their first occurrence
AppendedUnseen(before, new, after) ==
    /\ Len(after) >= Len(before)
    /\ SubSeq(after, 1, Len(before)) = before
    /\ \A i \in (Len(before) + 1)..Len(after) : InSeq(after[i], new) /\ ~ InSeq(after[i], before)
    /\ \A k \in 1..Len(new) : InSeq(new[k], after)
    /\ NoDuplicate(SubSeq(after, Len(before) + 1, Len(after)))
    /\ \A i, j \in (Len(before) + 1)..Len(after) :
          i < j => FirstAt(after[i], new) < FirstAt(after[j], new)

\* C11: every merge of parse_project appends to the running next_steps only
\* the steps of the new progress that are not yet present, leaves the
\* existing entries and their order untouched and keeps first-seen order; the
\* running next_steps therefore never holds a string twice
C11_NextStepsDeduplicated ==
    /\ [](Folding => NoDuplicate(merged.next_steps))
    /\ [][ nread' = nread + 1
           => AppendedUnseen(merged.next_steps, parsed'.next_steps, merged'.next_steps) ]_vars

\* a second file whose steps are all known already (one of them twice) has
\* been merged and the running list is the one of the first file
C11_KnownStepsSkipped ==
    /\ pc = "merging"
    /\ nread = 2
    /\ parsed.next_steps = << <<"Build">>, <<"Deploy">>, <<"Build">> >>
    /\ merged.next_steps = << <<"Deploy">>, <<"Build">>, <<"Test">>, <<"Ship">> >>

(***************************************************************************)
(* Properties of parse_project: text fields                                *)
(***************************************************************************)
TextFields == {"current_phase", "current_status", "current_focus", "next_action",
               "last_updated"}

\* the value is neither unset nor the empty string
NonEmpty(t) == t # NoneStr /\ Len(t) > 0

\* the files read so far whose parse yields a non-empty value for the field
Yielding(field) == { k \in 1..Len(read) : NonEmpty(read[k].progress[field]) }

\* C12: during and after parse_project each text field holds the value parsed
\* from the last file read, in the fixed order of progress_files, that yields
\* a non-empty value for it, and is unset when no file does; a later file
\* without a value never clears it
C12_TextFieldOfLastYieldingFile ==
    Folding =>
        /\ \A k \in 1..(Len(read) - 1) :
              FilePosition(read[k].file) < FilePosition(read[k + 1].file)
        /\ \A field \in TextFields :
              IF Yielding(field) = {} THEN merged[field] = NoneStr
              ELSE merged[field]
                   = read[CHOOSE k \in Yielding(field) : \A j \in Yielding(field) : j <= k]
                         .progress[field]

\* the first file gave the phase, the second one an empty phase and no
\* status, the fold kept the values of the first
C12_EmptyValueKeepsEarlier ==
    /\ pc = "merged"
    /\ Len(read) = 2
    /\ read[1].progress.current_phase = <<"Ship">>
    /\ read[2].progress.current_phase = <<>>
    /\ read[2].progress.current_status = NoneStr
    /\ merged.current_phase = <<"Ship">>
    /\ merged.current_status = <<"Active">>

(***************************************************************************)
(* Properties of parse_project: items and decisions                        *)
(***************************************************************************)
\* the lists of a sequence of lists, one after the other
RECURSIVE Concat(_)
Concat(lists) == IF lists = <<>> THEN <<>> ELSE Head(lists) \o Concat(Tail(lists))

RECURSIVE SumLen(_)
SumLen(lists) == IF lists = <<>> THEN 0 ELSE Len(Head(lists)) + SumLen(Tail(lists))

ReadItems == [ k \in 1..Len(read) |-> read[k].progress.items ]

ReadDecisions == [ k \in 1..Len(read) |-> read[k].progress.decisions ]

\* C13: the running items and decisions are the lists of the files read so
\* far, one after the other and nothing dropped: their lengths are the sums
\* over the files, and the items come in file order, then document order
C13_ItemsAndDecisionsConcatenated ==
    Folding =>
        /\ merged.items = Concat(ReadItems)
        /\ merged.decisions = Concat(ReadDecisions)
        /\ Len(merged.items) = SumLen(ReadItems)
        /\ Len(merged.decisions) = SumLen(ReadDecisions)
        /\ \A i, j \in 1..Len(merged.items) :
              i < j =>
                \/ FilePosition(merged.items[i].source_file)
                     < FilePosition(merged.items[j].source_file)
                \/ /\ merged.items[i].source_file = merged.items[j].source_file
                   /\ merged.items[i].line_number < merged.items[j].line_number

\* two files with the same checklist line: the item is kept once per file
C13_SameItemFromTwoFiles ==
    /\ pc = "merged"
    /\ Len(read) = 2
    /\ Len(read[1].progress.items) = 2
    /\ Len(read[2].progress.items) = 1
    /\ Len(merged.items) = 3
    /\ merged.items[1].content = merged.items[3].content
    /\ merged.items[1].status = merged.items[3].status

(***************************************************************************)
(* Properties of the context prompt                                        *)
(***************************************************************************)
\* a context-mode prompt has been returned
ContextPrompted == Prompted /\ prompt.mode = "context"

\* the lines of the prompt text
PromptLines == SplitLines(prompt.prompt_text)

\* the lines at which the heading stands
HeadingLines(lines, heading) == { n \in 1..Len(lines) : lines[n] = <<heading>> }

IsEntry(line) == line # <<>> /\ Head(line) = "  - "

\* the entries listed under the heading at line n: the texts of the run of
\* "  - " lines that follows it
RECURSIVE EntriesFrom(_, _)
EntriesFrom(lines, n) ==
    IF n <= Len(lines) /\ IsEntry(lines[n])
    THEN <<Tail(lines[n])>> \o EntriesFrom(lines, n + 1)
    ELSE <<>>

EntriesUnder(lines, heading) ==
    EntriesFrom(lines, (CHOOSE n \in HeadingLines(lines, heading) : TRUE) + 1)

\* the first three elements of a list
FirstThree(seq) == [ i \in 1..(IF Len(seq) < 3 THEN Len(seq) ELSE 3) |-> seq[i] ]

\* C14: a context prompt shows a next_action that has a value and then lists
\* no next steps; without it and with next_steps it lists under one "Next
\* steps:" heading exactly the first three next_steps in order; with neither
\* there is no "Next steps:" heading (an empty next_action counts as none)
C14_NextActionOrThreeSteps ==
    ContextPrompted =>
        LET lines == PromptLines IN
        IF NonEmpty(PromptedWith.next_action)
        THEN /\ \E n \in 1..Len(lines) :
                   lines[n] = <<"Next action: ">> \o PromptedWith.next_action
             /\ HeadingLines(lines, "Next steps:") = {}
        ELSE /\ \A n \in 1..Len(lines) :
                   lines[n] = <<>> \/ Head(lines[n]) # "Next action: "
             /\ IF PromptedWith.next_steps # <<>>
                THEN /\ Cardinality(HeadingLines(lines, "Next steps:")) = 1
                     /\ EntriesUnder(lines, "Next steps:") = FirstThree(PromptedWith.next_steps)
                ELSE HeadingLines(lines, "Next steps:") = {}

\* four next steps and no next action: the prompt lists three
C14_FourthStepLeftOut ==
    /\ ContextPrompted
    /\ PromptedWith.next_action = NoneStr
    /\ Len(PromptedWith.next_steps) = 4
    /\ Len(EntriesUnder(PromptLines, "Next steps:")) = 3

\* next steps and a next action: the prompt shows the action only
C14_ActionHidesSteps ==
    /\ ContextPrompted
    /\ NonEmpty(PromptedWith.next_action)
    /\ PromptedWith.next_steps # <<>>

\* the contents of the items that are in progress, in items order
InProgressContents(items) ==
    LET sel == SelectSeq(items, LAMBDA i : i.status = "in_progress")
    IN  [ k \in 1..Len(sel) |-> sel[k].content ]

\* C15: a context prompt lists under "In progress:" the first three items, in
\* items order, whose status is in_progress and no other item; without such
\* an item it has no "In progress:" heading
C15_ThreeInProgressItems ==
    ContextPrompted =>
        LET lines == PromptLines IN
        IF InProgressContents(PromptedWith.items) = <<>>
        THEN HeadingLines(lines, "In progress:") = {}
        ELSE /\ Cardinality(HeadingLines(lines, "In progress:")) = 1
             /\ EntriesUnder(lines, "In progress:") = FirstThree(InProgressContents(PromptedWith.items))
             /\ Len(EntriesUnder(lines, "In progress:")) <= 3

\* four items in progress and one of another status: three are listed
C15_FourthItemLeftOut ==
    /\ ContextPrompted
    /\ Len(InProgressContents(PromptedWith.items)) = 4
    /\ \E st \in {"pending", "complete", "blocked"} :
          \E i \in 1..Len(PromptedWith.items) : PromptedWith.items[i].status = st
    /\ Len(EntriesUnder(PromptLines, "In progress:")) = 3

(***************************************************************************)
(* Properties of the decision prompt                                       *)
(***************************************************************************)
DecisionPrompted == Prompted /\ prompt.mode = "decision"

\* the lines, among `lines`, that start with the label
LabelledLines(lines, label) ==
    { n \in 1..Len(lines) : lines[n] # <<>> /\ Head(lines[n]) = label }

ClosingRequest == <<"Please confirm which option to proceed with, or provide your preference.">>

\* C16: a decision prompt surfaces the first decision of the progress and no
\* other: it is returned as ContinuePrompt.decision, the text holds its
\* question, its options in order and nothing else as entries, a
\* recommendation line exactly when it has a recommendation, and ends with
\* the request for a choice
C16_FirstDecisionOnly ==
    DecisionPrompted =>
        LET d == PromptedWith.decisions[1]
            lines == PromptLines
            questions == LabelledLines(lines, "DECISION REQUIRED: ")
            recommendations == LabelledLines(lines, "Recommendation: ")
        IN
        /\ prompt.decision = <<d>>
        /\ prompt.has_decision
        /\ \E n \in 1..Len(lines) :
              /\ lines[n] = <<"DECISION REQUIRED: ">> \o d.question
              /\ questions = {n}
        /\ Cardinality(HeadingLines(lines, "Options:")) = 1
        /\ EntriesUnder(lines, "Options:") = d.options
        /\ Cardinality({ n \in 1..Len(lines) : IsEntry(lines[n]) }) = Len(d.options)
        /\ IF NonEmpty(d.recommendation)
           THEN \E n \in 1..Len(lines) :
                   /\ lines[n] = <<"Recommendation: ">> \o d.recommendation
                   /\ recommendations = {n}
           ELSE recommendations = {}
        /\ lines[Len(lines)] = ClosingRequest

\* two decisions with different questions, options and recommendations, the
\* first one without a recommendation: the prompt shows the first
C16_SecondDecisionNotShown ==
    /\ DecisionPrompted
    /\ Len(PromptedWith.decisions) = 2
    /\ PromptedWith.decisions[1].recommendation = NoneStr
    /\ NonEmpty(PromptedWith.decisions[2].recommendation)
    /\ PromptedWith.decisions[1].question # PromptedWith.decisions[2].question
    /\ PromptedWith.decisions[1].options # PromptedWith.decisions[2].options

(***************************************************************************)
(* Properties of running the pipeline twice                                *)
(***************************************************************************)
\* the continue command has been run a second time on the unchanged project
Rerunned == pc = "rerun"

\* C17: parse_project and generate run twice on the same unchanged files with
\* the same arguments return equal ProjectProgress values and the same
\* command and prompt_text, the "Relevant files" line included
C17_RerunIdentical ==
    Rerunned =>
        /\ again.progress = merged
        /\ again.prompt.command = prompt.command
        /\ again.prompt.prompt_text = prompt.prompt_text

\* the part of C17 that does not depend on the order of the source files: the
\* progress, the mode, the command and the decision are the same
C17_RerunSameProgress ==
    Rerunned =>
        /\ again.progress = merged
        /\ again.prompt.mode = prompt.mode
        /\ again.prompt.command = prompt.command
        /\ again.prompt.decision = prompt.decision
        /\ Cardinality(SourceFiles(merged.items)) <= 1
             => again.prompt.prompt_text = prompt.prompt_text

(***************************************************************************)
(* Properties of missing and non-matching input                            *)
(***************************************************************************)
\* nothing is set in the progress
AllUnset(p) ==
    /\ p.completion_pct = None
    /\ \A field \in TextFields : p[field] = NoneStr
    /\ p.items = <<>>
    /\ p.decisions = <<>>
    /\ p.next_steps = <<>>
    /\ p.has_pending_decision = FALSE

\* a document of plain words only: empty, or lines that say "Notes"
PlainDocument(c) == \A i \in 1..Len(c) : c[i] \in {"Notes", "\n"}

\* parse_file returned for a file that does not exist
MissingFileParsed == pc = "missing-file"

\* parse_project returned for a directory without any progress file
NoFileProject == pc = "merged" /\ Len(read) = 0

\* C18: parse_content of an empty or non-matching document, parse_file of a
\* file that does not exist and parse_project of a directory without progress
\* files each return a ProjectProgress in which nothing is set
C18_NothingSetWithoutInput ==
    /\ (pc \in {"parsed", "parsed-file"} /\ PlainDocument(doc)) => AllUnset(parsed)
    /\ MissingFileParsed => AllUnset(parsed)
    /\ NoFileProject => AllUnset(merged)

\* parse_file has returned for a missing PROGRESS.md
C18_MissingProgressFile ==
    /\ MissingFileParsed
    /\ progress_files[fileIdx] = "PROGRESS.md"
    /\ AllUnset(parsed)

(***************************************************************************)
(* Properties of malformed checkboxes                                      *)
(***************************************************************************)
\* the line has the shape "- [content] ..." and its bracket content is not
\* exactly one of the marks space, x, X, check mark
MalformedCheckbox(line) ==
    LET i == SkipLead(line, 1)
        closing == { j \in (i + 1)..Len(line) : line[j] = "]" }
    IN  /\ i <= Len(line)
        /\ line[i] = "["
        /\ closing # {}
        /\ SubSeq(line, i + 1, Leftmost(closing) - 1) \notin { <<m>> : m \in SpecMarks }

MalformedLines(c) ==
    { n \in 1..Len(SplitLines(c)) : MalformedCheckbox(SplitLines(c)[n]) }

ItemLines(items) == { items[k].line_number : k \in 1..Len(items) }

\* C19: a line whose bracket content is not exactly one of space, x, X or a
\* check mark adds no item, is not counted as pending and does not enter the
\* total of the checklist fallback
C19_MalformedNotRecognized ==
    Returned =>
        /\ ItemLines(parsed.items) \cap MalformedLines(doc) = {}
        /\ parsed.total_items <= Len(SplitLines(doc)) - Cardinality(MalformedLines(doc))

\* the same for "[maybe]" and the empty "[]" alone
C19_WordAndEmptyNotRecognized ==
    Returned =>
        \A n \in MalformedLines(doc) :
            (\E t \in {"maybe", "]"} : InSeq(t, SubSeq(SplitLines(doc)[n], 4, 4)))
            => n \notin ItemLines(parsed.items)

\* a "[maybe]" line and a "[]" line were parsed and gave no item
C19_WordAndEmptyParsed ==
    /\ Returned
    /\ Cardinality(MalformedLines(doc)) = 2
    /\ InSeq("maybe", doc)
    /\ ~ InSeq("U+2026", doc)
    /\ parsed.items = <<>>

(***************************************************************************)
(* Properties of the status override                                       *)
(***************************************************************************)
\* the indicator occurs in the text, ignoring case on both sides
ContainsIgnoringCase(text, ind) ==
    \E i \in 1..(Len(text) - Len(ind) + 1) :
        IF Len(ind) = 1 THEN Within(Upper(ind[1]), Upper(text[i]))
        ELSE \A k \in 1..Len(ind) : Upper(text[i + k - 1]) = Upper(ind[k])

\* the order in which the statuses of the indicators are tried
StatusOrder == <<"complete", "in_progress", "pending", "blocked">>

\* the indicators of the vocabulary that stand for the status
IndicatorsOf(status) ==
    { STATUS_INDICATORS[n][1] : n \in { m \in 1..Len(STATUS_INDICATORS) :
                                          STATUS_INDICATORS[m][2] = status } }

\* the status of an item with this text and mark: that of the first status,
\* in StatusOrder, of which the text holds an indicator, else by the mark
OverriddenStatus(text, mark) ==
    LET found == { g \in 1..Len(StatusOrder) :
                     \E ind \in IndicatorsOf(StatusOrder[g]) : ContainsIgnoringCase(text, ind) }
    IN  IF found # {} THEN StatusOrder[Leftmost(found)]
        ELSE IF mark \in SpecCheckedMarks THEN "complete" ELSE "pending"

\* the items of the result that come from lines with a recognized mark
RecognizedItems ==
    { k \in 1..Len(parsed.items) :
        SpecMarkOf(SplitLines(doc)[parsed.items[k].line_number]) # "" }

\* an indicator that is a word, not a symbol
WordIndicator(ind) == \A k \in 1..Len(ind) : Upper(ind[k]) = ind[k]

\* C20: the status of a recognized item is complete for a checked mark and
\* pending otherwise, unless its text holds, ignoring case, a status
\* indicator: then it is the status of the first indicator found in the order
\* complete, in progress, pending, blocked, whatever the mark and wherever
\* the indicators stand in the text
C20_StatusOverride ==
    Returned =>
        \A k \in RecognizedItems :
            parsed.items[k].status =
                OverriddenStatus(parsed.items[k].content,
                                 SpecMarkOf(SplitLines(doc)[parsed.items[k].line_number]))

\* the same for the items whose text holds no symbol indicator
C20_WordIndicatorOverride ==
    Returned =>
        \A k \in RecognizedItems :
            (\A n \in 1..Len(STATUS_INDICATORS) :
                ContainsIgnoringCase(parsed.items[k].content, STATUS_INDICATORS[n][1])
                => WordIndicator(STATUS_INDICATORS[n][1]))
            => parsed.items[k].status =
                  OverriddenStatus(parsed.items[k].content,
                                   SpecMarkOf(SplitLines(doc)[parsed.items[k].line_number]))

\* an unchecked item that names "Blocked" before "in progress" is in progress,
\* a checked item that says "pending" is pending
C20_OrderBeatsPositionAndMark ==
    /\ Returned
    /\ Len(parsed.items) = 2
    /\ parsed.items[1].content = <<"Blocked", " ", "in", " ", "progress">>
    /\ parsed.items[1].status = "in_progress"
    /\ SpecMarkOf(SplitLines(doc)[2]) = "x"
    /\ parsed.items[2].status = "pending"

(***************************************************************************)
(* Properties of the item priority                                         *)
(***************************************************************************)
\* the priority keywords in the order they are tried, with their priorities
PriorityKeywords ==
    << <<"CRITICAL", "critical">>, <<"HIGH", "high">>, <<"MEDIUM", "medium">>,
       <<"LOW", "low">>, <<"IMMEDIATE", "critical">> >>

\* the priority of the first keyword, in that order, that the text holds
\* ignoring case; unset without keyword
KeywordPriority(text) ==
    LET found == { n \in 1..Len(PriorityKeywords) :
                     ContainsIgnoringCase(text, <<PriorityKeywords[n][1]>>) }
    IN  IF found = {} THEN NoPriority ELSE PriorityKeywords[Leftmost(found)][2]

\* C21: the priority of a checklist item is that of the first keyword its
\* text holds, ignoring case, the keywords being tried in the order CRITICAL,
\* HIGH, MEDIUM, LOW, IMMEDIATE (IMMEDIATE giving critical); an item without
\* keyword has no priority
C21_PriorityOfFirstKeyword ==
    Returned =>
        \A k \in 1..Len(parsed.items) :
            parsed.items[k].priority = KeywordPriority(parsed.items[k].content)

\* "low then Critical" is critical, "Follow up" is low, "Task" has none
C21_CriticalBeatsEarlierLow ==
    /\ Returned
    /\ \E k \in 1..Len(parsed.items) :
          /\ parsed.items[k].content = <<"low", " ", "then", " ", "Critical">>
          /\ parsed.items[k].priority = "critical"
    /\ \E k \in 1..Len(parsed.items) :
          /\ parsed.items[k].content \in { <<"Follow", " ", "up">>, <<"Task">> }
          /\ parsed.items[k].priority \in {"low", NoPriority}
(***************************************************************************)
(* Properties of parse_content: next steps                                 *)
(***************************************************************************)
\* a "Next Steps" heading line, as the documents spell it
StepsHeadingLine(line) ==
    line \in { <<"##", " ", "Next", " ", "Steps">>,
               <<"###", " ", "Immediate", " ", "next", " ", "step">> }

\* a bulleted line
BulletLine(line) == Len(line) >= 3 /\ line[1] \in {"-", "*"} /\ line[2] = " "

\* the texts of the bulleted lines from line i on, up to the first line that
\* is no bullet
RECURSIVE BulletRun(_, _)
BulletRun(lines, i) ==
    IF i > Len(lines) \/ ~BulletLine(lines[i]) THEN <<>>
    ELSE <<SubSeq(lines[i], 3, Len(lines[i]))>> \o BulletRun(lines, i + 1)

\* the bulleted run that follows the heading in line h, blank lines between
\* the two skipped
RunAfter(lines, h) ==
    LET later == { i \in (h + 1)..Len(lines) : lines[i] # <<>> } IN
    IF later = {} THEN <<>> ELSE BulletRun(lines, Leftmost(later))

\* the run of the first "Next Steps" heading that has one
StepsRun(c) ==
    LET lines == SplitLines(c)
        heads == { h \in 1..Len(lines) :
                     StepsHeadingLine(lines[h]) /\ RunAfter(lines, h) # <<>> }
    IN  IF heads = {} THEN <<>> ELSE RunAfter(lines, Leftmost(heads))

\* C23: the next_steps of every ProjectProgress returned by parse_content
\* are the first five bulleted lines, in document order, of the run that
\* follows the "Next Steps" heading, so at most five, and none when no
\* heading is followed by a bulleted run.
C23_FirstFiveNextSteps ==
    Returned =>
        /\ Len(parsed.next_steps) <= 5
        /\ parsed.next_steps = SubSeq(StepsRun(doc), 1, Min(5, Len(StepsRun(doc))))

\* a section of seven bullets was parsed and the sixth and seventh left out
C23_SeventhStepLeftOut ==
    /\ Returned
    /\ Len(StepsRun(doc)) = 7
    /\ parsed.next_steps = << <<"Build">>, <<"Deploy">>, <<"Test">>, <<"Ship">>, <<"Auth">> >>

(***************************************************************************)
(* Properties of the completion and its counts                             *)
(***************************************************************************)
\* completion_pct, total_items and completed_items of a ProjectProgress
CompletionTriple(p) == <<p.completion_pct, p.total_items, p.completed_items>>

\* counted items come with the completion computed from them
CountsAgree(p) ==
    p.total_items > 0 =>
        /\ p.completed_items <= p.total_items
        /\ p.completion_pct = Frac(p.completed_items * 100, p.total_items)

\* C29: in every progress parse_content returns and in every accumulator
\* _merge_progress leaves, total_items > 0 implies completion_pct =
\* completed_items / total_items * 100 and completed_items <= total_items;
\* and a merge step either keeps completion_pct and both counts or takes all
\* three from the file just parsed.
C29_CountsFromOneSource ==
    /\ [](CountsAgree(parsed) /\ CountsAgree(merged))
    /\ [][ParseProjectFile =>
            /\ CompletionTriple(merged') \in {CompletionTriple(merged), CompletionTriple(parsed')}
            /\ merged'.completion_pct # merged.completion_pct =>
                   CompletionTriple(merged') = CompletionTriple(parsed')]_vars

\* the completion of a checklist read first is replaced by the higher explicit
\* completion of the file read second, and the counts of the checklist go
\* with it although its items stay
C29_ExplicitReplacesChecklist ==
    /\ pc = "merged"
    /\ Len(read) = 2
    /\ read[1].progress.total_items > 0
    /\ read[2].progress.completion_pct # None
    /\ read[2].progress.total_items = 0
    /\ merged.completion_pct = read[2].progress.completion_pct
    /\ merged.total_items = 0
    /\ merged.items # <<>>

(***************************************************************************)
(* The urgent listing                                                      *)
(***************************************************************************)
MaxProjects == 2

\* no deadline is set
NoDeadline == -1

\* the deadline has passed
is_overdue(p, today) == p.deadline # NoDeadline /\ p.deadline - today < 0

\* the deadline falls within the days the listing colours
DueSoonDays == 7
is_due_soon(p, today) ==
    /\ p.deadline # NoDeadline
    /\ p.deadline - today >= 0
    /\ p.deadline - today <= DueSoonDays

\* Project.urgency_score, for a scorer built with the weights w: points for
\* an overdue deadline, for one that is due soon and for a later one, and
\* points per priority level above someday
urgency_score(p, today, w) ==
    (IF p.deadline = NoDeadline THEN 0
     ELSE IF is_overdue(p, today) THEN w.overdue
     ELSE IF is_due_soon(p, today) THEN w.soon
     ELSE w.later)
    + (5 - p.priority) * w.step

\* the weights that give the order the scorer has to guarantee
Weightings ==
    { w \in [ overdue : {40, 100}, soon : {25, 50}, later : {10}, step : {0, 5, 10} ] :
        /\ w.step > 0
        /\ w.overdue > w.soon + 4 * w.step
        /\ w.soon > 4 * w.step }

\* the rows the projects table can hold
ProjectRows ==
    [ id : {"/work/app"},
      priority : 1..5,
      deadline : {NoDeadline, 12},
      archived : {FALSE},
      category : {"client"},
      tags : {<<>>} ]
    \cup
    [ id : {"/work/site"},
      priority : {1, 5},
      deadline : {NoDeadline, 8, 16, 60},
      archived : {FALSE},
      category : {"client"},
      tags : {<<>>} ]
    \cup
    [ id : {"/work/tool"},
      priority : {1},
      deadline : {8},
      archived : {FALSE, TRUE},
      category : {"internal"},
      tags : {<<"web">>} ]

\* sorted(projects, key=...): the first of the rows with the smallest key
\* comes first, rows with equal keys keep their order
RECURSIVE sorted_ascending(_, _, _)
sorted_ascending(rows, today, w) ==
    LET first == Leftmost({ i \in 1..Len(rows) :
                              \A j \in 1..Len(rows) :
                                  urgency_score(rows[j], today, w)
                                      >= urgency_score(rows[i], today, w) })
    IN IF rows = <<>> THEN <<>>
       ELSE <<rows[first]>>
            \o sorted_ascending(SubSeq(rows, 1, first - 1) \o SubSeq(rows, first + 1, Len(rows)),
                                today, w)

\* sorted(projects, key=lambda p: p.urgency_score, reverse=True): the first
\* of the rows with the largest key comes first, rows with equal keys keep
\* their order
RECURSIVE projects_sorted(_, _, _)
projects_sorted(rows, today, w) ==
    LET first == Leftmost({ i \in 1..Len(rows) :
                              \A j \in 1..Len(rows) :
                                  urgency_score(rows[j], today, w)
                                      <= urgency_score(rows[i], today, w) })
    IN IF rows = <<>> THEN <<>>
       ELSE <<rows[first]>>
            \o projects_sorted(SubSeq(rows, 1, first - 1) \o SubSeq(rows, first + 1, Len(rows)),
                               today, w)

\* urgent(filter_str, limit): the rows of the table it prints; the query
\* takes the rows that are not archived, narrowed by --filter
urgent(rows, filter_str, limit, today, w) ==
    LET selected(p) ==
            /\ p.archived = FALSE
            /\ IF filter_str = <<>> THEN TRUE
               ELSE IF filter_str[1] = "type" THEN p.category = filter_str[2]
               ELSE IF filter_str[1] = "priority" THEN p.priority = filter_str[2]
               ELSE IF filter_str = <<"overdue">>
                    THEN p.deadline # NoDeadline /\ p.deadline < today
               ELSE IF filter_str[1] = "tagged"
                    THEN \E k \in 1..Len(p.tags) : p.tags[k] = filter_str[2]
               ELSE TRUE
        sorted == projects_sorted(SelectSeq(rows, selected), today, w)
    IN IF limit > 0 THEN SubSeq(sorted, 1, Min(limit, Len(sorted))) ELSE sorted

\* pm urgent [--filter f] [--limit n], run on a day when the table holds at
\* most MaxProjects rows, no two with the same id
Urgent ==
    /\ pc = "idle"
    /\ \E n \in 0..MaxProjects : \E rows \in [1..n -> ProjectRows] :
          /\ \A i, j \in 1..n : rows[i].id = rows[j].id => i = j
          /\ table' = rows
    /\ now' \in {10, 14}
    /\ weighting' \in Weightings
    /\ \E filter_str \in { <<>>, <<"type", "client">>, <<"priority", 1>>, <<"overdue">>,
                           <<"tagged", "web">>, <<"status", "active">> } :
       \E limit \in {0, 1} :
          listing' = urgent(table', filter_str, limit, now', weighting')
    /\ pc' = "listed"
    /\ UNCHANGED <<db, stats, scans, batch, script, merging,
            status_file>>
    /\ UNCHANGED parserVarsButPc

(***************************************************************************)
(* Properties of the urgent listing                                        *)
(***************************************************************************)
\* the order the listing has to show: overdue before due soon, due soon
\* before no deadline, and without deadlines the lower priority value first
RanksAbove(a, b, today) ==
    \/ is_overdue(a, today) /\ is_due_soon(b, today)
    \/ is_due_soon(a, today) /\ b.deadline = NoDeadline
    \/ a.deadline = NoDeadline /\ b.deadline = NoDeadline /\ a.priority < b.priority

Listed == pc = "listed"

MaxScans == 2

ItemsCap == 50

\* ProjectMetadata(): the defaults
DefaultMetadata ==
    [ priority |-> 3,
      deadline |-> NoDeadline,
      target_date |-> NoDeadline,
      tags |-> <<>>,
      client_name |-> NoneStr,
      budget_hours |-> None,
      hours_logged |-> 0,
      archived |-> FALSE,
      notes |-> <<>> ]

\* read_pm_status found no PM-STATUS.md
NoMetadata == <<>>

\* what parse_project can return for a scanned project: nothing, the two
\* items of a short TODO.md, and the items of a TODO.md with one line more
\* than the scan stores, every fourth of them blocked
ScanProgresses ==
    { EmptyProgress,
      parse_file(FilePosition("TODO.md"),
                 JoinLines(<< <<"-", " ", "[", "x", "]", " ", "Task">>,
                              <<"-", " ", "[", " ", "]", " ", "Task">> >>)),
      ProgressOf(None,
                 [ i \in 1..(ItemsCap + 1) |->
                     [ content |-> <<"Task">>,
                       status |-> <<"complete", "in_progress", "pending", "blocked">>[(i % 4) + 1],
                       priority |-> NoPriority,
                       source_file |-> "TODO.md",
                       line_number |-> i ] ],
                 <<>>, <<>>) }

\* what detector.scan() can return, sorted by name: each of the two
\* directories is a project or not, with its parse and its PM-STATUS.md
ScanTrees ==
    LET found(path, name, category, metas) ==
            { <<>> } \cup
            { << [ path |-> path, name |-> name, category |-> category,
                   progress |-> g, pm_meta |-> m ] >> : g \in ScanProgresses, m \in metas }
    IN  { a \o b :
            a \in found("/work/app", "app", "internal",
                        { NoMetadata,
                          << [ DefaultMetadata EXCEPT !.priority = 1, !.deadline = 12,
                                                      !.notes = <<"Notes">> ] >> }),
            b \in found("/work/clients/site", "site", "client", { NoMetadata }) }

\* the ProgressItem rows added for the items of a parse
ItemRows(proj_id, items) ==
    [ k \in 1..Min(ItemsCap, Len(items)) |->
        [ project_id |-> proj_id,
          content |-> items[k].content,
          status |-> items[k].status,
          priority |-> items[k].priority,
          source_file |-> items[k].source_file,
          line_number |-> items[k].line_number ] ]

\* faulty variant of StoredItems: the rows of the earlier scans stay
AccumulatedItems(rows, proj_id, items) == rows \o ItemRows(proj_id, items)

\* the progress_items table after the rows of the project were deleted and
\* the rows of the new parse added
StoredItems(rows, proj_id, items) ==
    SelectSeq(rows, LAMBDA r : r.project_id # proj_id) \o ItemRows(proj_id, items)

\* faulty variant of HistoryRow: the counts are taken from the stored items
HistoryRowOfStored(proj_id, proj_progress) ==
    LET items == SubSeq(proj_progress.items, 1, Min(ItemsCap, Len(proj_progress.items)))
        count(status) == Len(SelectSeq(items, LAMBDA i : i.status = status))
    IN  [ project_id |-> proj_id,
          completion_pct |-> proj_progress.completion_pct,
          items_total |-> Len(items),
          items_complete |-> count("complete"),
          items_in_progress |-> count("in_progress"),
          items_pending |-> count("pending") ]

\* the ScanHistory row of a scanned project
HistoryRow(proj_id, proj_progress) ==
    LET count(status) == Len(SelectSeq(proj_progress.items, LAMBDA i : i.status = status))
    IN  [ project_id |-> proj_id,
          completion_pct |-> proj_progress.completion_pct,
          items_total |-> Len(proj_progress.items),
          items_complete |-> count("complete"),
          items_in_progress |-> count("in_progress"),
          items_pending |-> count("pending") ]

\* the body of the loop of scan for the detected project d: the database
\* and the counters after it
ScanProject(database, counters, d) ==
    LET proj_id == d.path
        found == { k \in 1..Len(database.projects) : database.projects[k].id = proj_id }
        existing == found # {}
        proj == IF existing THEN database.projects[Leftmost(found)]
                ELSE [ id |-> proj_id, priority |-> Unset, deadline |-> Unset,
                       target_date |-> Unset, tags |-> Unset, client_name |-> Unset,
                       budget_hours |-> Unset, hours_logged |-> Unset, archived |-> Unset,
                       notes |-> Unset ]
        m == IF d.pm_meta = NoMetadata THEN DefaultMetadata ELSE d.pm_meta[1]
        set(field, truthy) ==
            IF d.pm_meta # NoMetadata /\ truthy THEN m[field] ELSE proj[field]
        row == [ id |-> proj_id,
                 path |-> d.path,
                 name |-> d.name,
                 category |-> d.category,
                 completion_pct |-> d.progress.completion_pct,
                 current_phase |-> d.progress.current_phase,
                 current_status |-> d.progress.current_status,
                 current_focus |-> d.progress.current_focus,
                 next_action |-> d.progress.next_action,
                 has_pending_decision |-> d.progress.has_pending_decision,
                 priority |-> set("priority", m.priority # 3),
                 deadline |-> set("deadline", m.deadline # NoDeadline),
                 target_date |-> set("target_date", m.target_date # NoDeadline),
                 tags |-> set("tags", m.tags # <<>>),
                 client_name |-> set("client_name", Truthy(m.client_name)),
                 budget_hours |-> set("budget_hours",
                                      m.budget_hours # None /\ m.budget_hours # <<0>>),
                 hours_logged |-> set("hours_logged", m.hours_logged # 0),
                 archived |-> set("archived", m.archived),
                 notes |-> set("notes", m.notes # <<>>) ]
        items == d.progress.items
    IN  [ db |->
            [ projects |->
                IF existing THEN [ database.projects EXCEPT ![Leftmost(found)] = row ]
                ELSE Append(database.projects, row),
              progress_items |-> StoredItems(database.progress_items, proj_id, items),
              scan_history |->
                Append(database.scan_history, HistoryRow(proj_id, d.progress)) ],
          stats |->
            [ counters EXCEPT ![IF existing THEN "updated" ELSE "new"] = @ + 1,
                              ![d.category] = @ + 1 ] ]

\* the loop of scan over the detected projects
RECURSIVE ScanProjects(_, _, _)
ScanProjects(database, counters, projects) ==
    IF projects = <<>> THEN [ db |-> database, stats |-> counters ]
    ELSE LET after == ScanProject(database, counters, Head(projects)) IN
         ScanProjects(after.db, after.stats, Tail(projects))

\* pm scan base_path: detect, parse and store every project, then commit
ScanDb ==
    /\ pc \in {"idle", "scanned-db"}
    /\ Len(scans) < MaxScans
    /\ \E projects \in ScanTrees :
          LET after == ScanProjects(db, NoStats, projects) IN
          /\ db' = after.db
          /\ stats' = after.stats
          /\ scans' = Append(scans, projects)
    /\ pc' = "scanned-db"
    /\ UNCHANGED <<table, now, weighting, listing, batch, script, merging, status_file>>
    /\ UNCHANGED parserVarsButPc

(***************************************************************************)
(* Properties of scan                                                      *)
(***************************************************************************)
\* every detection of every scan so far, in the order they were processed
RECURSIVE Detections(_)
Detections(runs) ==
    IF runs = <<>> THEN <<>> ELSE Head(runs) \o Detections(Tail(runs))

DetectedPaths(runs) == { Detections(runs)[k].path : k \in 1..Len(Detections(runs)) }

\* the items of the most recent parse of the project at path
LastParsedItems(runs, path) ==
    LET dets == Detections(runs)
        last == CHOOSE k \in 1..Len(dets) :
                    /\ dets[k].path = path
                    /\ \A j \in 1..Len(dets) : dets[j].path = path => j <= k
    IN  dets[last].progress.items

\* the contents and line numbers of the ProgressItem rows of a project
RowsOf(path) ==
    LET rows == SelectSeq(db.progress_items, LAMBDA r : r.project_id = path) IN
    [ k \in 1..Len(rows) |->
        [ content |-> rows[k].content, status |-> rows[k].status,
          priority |-> rows[k].priority, source_file |-> rows[k].source_file,
          line_number |-> rows[k].line_number ] ]

\* C24: after any sequence of scans there is exactly one Project row for
\* every path a scan detected and none for another path, the last scan
\* counted the paths without a row as new and the others as updated, and the
\* ProgressItem rows of a project are the first (at most 50) items of its
\* most recent parse.
C24_OneRowAndLatestItems ==
    /\ \A k \in 1..Len(db.projects) : db.projects[k].id \in DetectedPaths(scans)
    /\ \A path \in DetectedPaths(scans) :
          /\ Cardinality({ k \in 1..Len(db.projects) : db.projects[k].id = path }) = 1
          /\ LET items == LastParsedItems(scans, path) IN
             RowsOf(path) = SubSeq(items, 1, Min(50, Len(items)))
    /\ scans # <<>> =>
          LET earlier == DetectedPaths(SubSeq(scans, 1, Len(scans) - 1))
              last == scans[Len(scans)]
          IN  /\ stats.new = Cardinality({ k \in 1..Len(last) : last[k].path \notin earlier })
              /\ stats.updated = Cardinality({ k \in 1..Len(last) : last[k].path \in earlier })

\* a project scanned with 51 items and then with 2 has one row, counted as
\* updated, and 2 item rows
C24_SecondScanReplacesItems ==
    /\ Len(scans) = 2
    /\ \E i \in 1..Len(scans[1]) : \E j \in 1..Len(scans[2]) :
          /\ scans[1][i].path = scans[2][j].path
          /\ Len(scans[1][i].progress.items) = 51
          /\ Len(scans[2][j].progress.items) = 2
          /\ Len(RowsOf(scans[2][j].path)) = 2
    /\ stats.updated = 1
    /\ stats.new = 1

\* C25: the history holds one row per detection of every scan, in the order
\* of the detections, so earlier rows stay as they were and k scans of an
\* unchanged tree of n projects give k*n rows; items_total of a row is the
\* number of all parsed items, and complete, in progress and pending
\* together do not exceed it.
C25_HistoryAppended ==
    LET dets == Detections(scans)
        history == db.scan_history
    IN  /\ Len(history) = Len(dets)
        /\ \A k \in 1..Len(history) :
              /\ history[k].project_id = dets[k].path
              /\ history[k].items_total = Len(dets[k].progress.items)
              /\ history[k].items_complete + history[k].items_in_progress
                     + history[k].items_pending <= history[k].items_total
        /\ (scans # <<>> /\ \A s \in 1..Len(scans) : scans[s] = scans[1])
              => Len(history) = Len(scans) * Len(scans[1])

\* two scans of the same two projects left four rows, one of them with 51
\* items of which some are blocked
C25_FourRowsAfterTwoScans ==
    /\ Len(scans) = 2
    /\ scans[1] = scans[2]
    /\ Len(scans[1]) = 2
    /\ Len(db.scan_history) = 4
    /\ \E k \in 1..4 :
          /\ db.scan_history[k].items_total = 51
          /\ db.scan_history[k].items_complete + db.scan_history[k].items_in_progress
                 + db.scan_history[k].items_pending < 51

(***************************************************************************)
(* generate_batch_script                                                   *)
(***************************************************************************)
MaxBatch == 4

\* faulty variant of ProjectLines: the wait follows the projects whose
\* index from 0 is a multiple of parallel
ProjectLinesFromZero(i, name, progress, made, parallel) ==
    << <<"#", " ", "Project", " ", ToString(i + 1), ":", " ", name>> >>
    \o (IF Truthy(made.prompt_text)
        THEN << <<"#", " ", "Context", ":", " ">>
                \o (IF Truthy(progress.current_phase) THEN progress.current_phase
                    ELSE <<"N/A">>) >>
        ELSE <<>>)
    \o (IF parallel > 1
        THEN << <<"(">> \o made.command \o <<")", " ", "&">> >>
             \o (IF i % parallel = 0 THEN << <<"wait">> >> ELSE <<>>)
        ELSE << made.command >>)
    \o << <<>> >>

\* the lines of the loop body for the project with index i, counted from 0
ProjectLines(i, name, progress, made, parallel) ==
    << <<"#", " ", "Project", " ", ToString(i + 1), ":", " ", name>> >>
    \o (IF Truthy(made.prompt_text)
        THEN << <<"#", " ", "Context", ":", " ">>
                \o (IF Truthy(progress.current_phase) THEN progress.current_phase
                    ELSE <<"N/A">>) >>
        ELSE <<>>)
    \o (IF parallel > 1
        THEN << <<"(">> \o made.command \o <<")", " ", "&">> >>
             \o (IF (i + 1) % parallel = 0 THEN << <<"wait">> >> ELSE <<>>)
        ELSE << made.command >>)
    \o << <<>> >>

\* generate_batch_script(projects, parallel)
generate_batch_script(projects, parallel) ==
    LET body[n \in 0..Len(projects)] ==
            IF n = 0 THEN <<>>
            ELSE body[n - 1]
                 \o ProjectLines(n - 1, projects[n].name, projects[n].progress,
                                 generate(projects[n].path, projects[n].name,
                                          projects[n].progress, "context", <<>>),
                                 parallel)
    IN  JoinLines(<< <<"#!/bin/bash">>, <<>>,
                     <<"#", " ", "Auto-generated", " ", "continue", " ", "script">>, <<>> >>
                  \o (IF parallel > 1
                      THEN << <<"#", " ", "Running", " ", ToString(Len(projects)), " ", "projects",
                                " ", "with", " ", ToString(parallel), " ", "parallel">>, <<>> >>
                      ELSE <<>>)
                  \o body[Len(projects)]
                  \o (IF parallel > 1
                      THEN << <<"wait">>,
                              <<"echo", " ", "\"", "All", " ", "projects", " ", "started", "\"">> >>
                      ELSE <<>>))

\* the projects a script is generated for: without items, so that the
\* prompt has no file references
BatchProjects ==
    { [ path |-> "/work/app", name |-> "app", progress |-> EmptyProgress ],
      [ path |-> "/work/site", name |-> "site",
        progress |-> [ EmptyProgress EXCEPT !.current_phase = <<"Build">> ] ] }

\* a call generator.generate_batch_script(projects, parallel)
GenerateBatchScript ==
    /\ pc = "idle"
    /\ \E n \in 0..MaxBatch : \E projects \in [1..n -> BatchProjects] :
       \E parallel \in 0..3 :
          /\ batch' = [ projects |-> projects, parallel |-> parallel ]
          /\ script' = generate_batch_script(projects, parallel)
    /\ pc' = "scripted"
    /\ UNCHANGED <<table, now, weighting, listing, db, stats, scans, merging, status_file>>
    /\ UNCHANGED parserVarsButPc

(***************************************************************************)
(* Properties of generate_batch_script                                     *)
(***************************************************************************)
Scripted == pc = "scripted"

\* the lines of the script that run a command, in the foreground or as a
\* background job
CommandLine(line) == line # <<>> /\ line[1] \in {"cd", "("}

WaitLine(line) == line = <<"wait">>

\* C26: the script has one command per project, in input order; with
\* parallel = k > 1 every command is a background job, a wait follows the
\* command of exactly every k-th project, a wait stands after the last
\* command, and at most k jobs are started before the first wait and
\* between two waits that follow each other; with parallel = 1 the commands
\* run in the foreground and there is no wait.
C26_BatchScriptWaits ==
    Scripted =>
        LET lines == SplitLines(script)
            k == batch.parallel
            commands == { i \in 1..Len(lines) : CommandLine(lines[i]) }
            waits == { i \in 1..Len(lines) : WaitLine(lines[i]) }
            nth(j) == CHOOSE i \in commands :
                          Cardinality({ x \in commands : x <= i }) = j
            jobs(from, to) == Cardinality({ c \in commands : from < c /\ c < to })
        IN  /\ Cardinality(commands) = Len(batch.projects)
            /\ \A j \in 1..Len(batch.projects) :
                  lines[nth(j)] =
                      IF k > 1
                      THEN <<"(">> \o ResumeCommand(batch.projects[j].path) \o <<")", " ", "&">>
                      ELSE ResumeCommand(batch.projects[j].path)
            /\ k > 1 =>
                  /\ \A j \in 1..Len(batch.projects) :
                        (nth(j) + 1 \in waits) <=> (j % k = 0)
                  /\ \E w \in waits : \A c \in commands : c < w
                  /\ \A w \in waits :
                        jobs(IF \E v \in waits : v < w
                             THEN CHOOSE v \in waits :
                                      v < w /\ \A u \in waits : u < w => u <= v
                             ELSE 0, w) <= k
            /\ k = 1 => waits = {}

\* four projects with parallel = 2: a wait after the second and the fourth
\* command and the final one
C26_TwoChunksOfTwo ==
    /\ Scripted
    /\ batch.parallel = 2
    /\ Len(batch.projects) = 4
    /\ Cardinality({ i \in 1..Len(SplitLines(script)) : WaitLine(SplitLines(script)[i]) }) = 3

(***************************************************************************)
(* _merge_progress on objects                                              *)
(***************************************************************************)
\* a call parser._merge_progress(base, new) on two ProjectProgress objects:
\* the fields of the object `base` are assigned, its lists extended in
\* place, and `base` is returned; the object `new` is only read
MergeProgress ==
    /\ pc = "idle"
    /\ \E base \in {EmptyProgress} \cup { parse_file(1, d) : d \in FileDocs } :
       \E new \in { parse_file(2, d) : d \in FileDocs } :
          merging' = [ before |-> [ base |-> base, new |-> new ],
                       after |-> [ base |-> _merge_progress(base, new), new |-> new ],
                       returned |-> "base" ]
    /\ pc' = "merge-returned"
    /\ UNCHANGED <<table, now, weighting, listing, db, stats, scans, batch, script,
                   status_file>>
    /\ UNCHANGED parserVarsButPc

\* C27: a call of _merge_progress leaves both argument objects as they were
\* and returns an object that is neither of them.
C27_MergeIsPure ==
    pc = "merge-returned" =>
        /\ merging.after.base = merging.before.base
        /\ merging.after.new = merging.before.new
        /\ merging.returned \notin {"base", "new"}

(***************************************************************************)
(* PM-STATUS.md: parse_pm_status, write_pm_status, sync_to_file            *)
(***************************************************************************)
\* int(value) and float(value) on a stripped value: the number, -1 for a
\* ValueError.  A date is a day of February 2025; a float prints as n.0
MetaInt(value) ==
    LET hits == { n \in 0..60 : value = <<ToString(n)>> } IN
    IF hits = {} THEN -1 ELSE CHOOSE n \in hits : TRUE

MetaFloat(value) ==
    IF Len(value) = 2 /\ value[2] = ".0" THEN MetaInt(<<value[1]>>) ELSE MetaInt(value)

\* _parse_date(value)
_parse_date(value) ==
    IF Len(value) = 2 /\ value[1] \in {"2025-02-", "2025/02/"} /\ MetaInt(<<value[2]>>) >= 0
    THEN MetaInt(<<value[2]>>) ELSE NoDeadline

\* _parse_list(value)
_parse_list(value) ==
    LET v == Strip(value)
        inner == IF v # <<>> /\ v[1] = "[" /\ v[Len(v)] = "]"
                 THEN SubSeq(v, 2, Len(v) - 1) ELSE v
        quote(t) == t \in {"\"", "'"}
        unquote(item) ==
            SubSeq(item,
                   IF item # <<>> /\ quote(item[1]) THEN 2 ELSE 1,
                   IF Len(item) > 1 /\ quote(item[Len(item)]) THEN Len(item) - 1 ELSE Len(item))
        split[k \in 0..Len(inner)] ==
            \* the items of inner[1..k], the last one still open
            IF k = 0 THEN << <<>> >>
            ELSE IF inner[k] = "," THEN Append(split[k - 1], <<>>)
            ELSE [ split[k - 1] EXCEPT ![Len(split[k - 1])] = Append(@, inner[k]) ]
        items == [ k \in 1..Len(split[Len(inner)]) |-> unquote(Strip(split[Len(inner)][k])) ]
    IN  SelectSeq(items, LAMBDA item : item # <<>>)

\* the body of the loop of parse_pm_status for one line of the frontmatter
MetadataLine(metadata, raw) ==
    LET line == Strip(raw)
        colons == { k \in 1..Len(line) : line[k] = ":" }
        at == Leftmost(colons)
        name == Strip(SubSeq(line, 1, at - 1))
        key == IF Len(name) = 1 THEN Lower(name[1]) ELSE "<None>"
        value == Strip(SubSeqFrom(line, at + 1))
        word == IF Len(value) = 1 THEN Lower(value[1]) ELSE "<None>"
    IN  IF line = <<>> \/ line[1] = "#" \/ colons = {} THEN metadata
        ELSE IF key = "priority"
        THEN [ metadata EXCEPT !.priority =
                 IF MetaInt(value) >= 0 THEN MetaInt(value)
                 ELSE CASE word = "critical" -> 1 [] word = "high" -> 2 [] word = "normal" -> 3
                        [] word = "low" -> 4 [] word = "someday" -> 5 [] OTHER -> 3 ]
        ELSE IF key = "deadline"
        THEN [ metadata EXCEPT !.deadline = _parse_date(value) ]
        ELSE IF key \in {"target_date", "target"}
        THEN [ metadata EXCEPT !.target_date = _parse_date(value) ]
        ELSE IF key = "tags"
        THEN [ metadata EXCEPT !.tags = _parse_list(value) ]
        ELSE IF key \in {"client", "client_name"}
        THEN [ metadata EXCEPT !.client_name =
                 IF value # <<>> /\ value # <<"null">> THEN value ELSE NoneStr ]
        ELSE IF key \in {"budget_hours", "budget"}
        THEN [ metadata EXCEPT !.budget_hours =
                 IF value = <<>> THEN None
                 ELSE IF MetaFloat(value) >= 0 THEN <<MetaFloat(value)>> ELSE @ ]
        ELSE IF key \in {"hours_logged", "hours"}
        THEN [ metadata EXCEPT !.hours_logged =
                 IF value = <<>> THEN 0
                 ELSE IF MetaFloat(value) >= 0 THEN MetaFloat(value) ELSE @ ]
        ELSE IF key = "archived"
        THEN [ metadata EXCEPT !.archived = word \in {"true", "yes", "1"} ]
        ELSE metadata

\* parse_pm_status(content): ^---\s*\n(.*?)\n---\s*\n?(.*) with DOTALL
parse_pm_status(content) ==
    LET c == content
        spaceEnd == Leftmost({ k \in 2..(Len(c) + 1) : k > Len(c) \/ ~IsSpace(c[k]) })
        starts == IF c = <<>> \/ c[1] # "---" THEN {}
                  ELSE { p \in 3..spaceEnd : c[p - 1] = "\n" }
        ends(p) == { e \in p..(Len(c) - 1) : c[e] = "\n" /\ c[e + 1] = "---" }
        good == { p \in starts : ends(p) # {} }
        from == CHOOSE p \in good : \A q \in good : q <= p
        to == Leftmost(ends(from))
        yaml == SplitLines(SubSeq(c, from, to - 1))
        fields[k \in 0..Len(yaml)] ==
            IF k = 0 THEN DefaultMetadata ELSE MetadataLine(fields[k - 1], yaml[k])
    IN  IF good = {} THEN [ DefaultMetadata EXCEPT !.notes = Strip(c) ]
        ELSE [ fields[Len(yaml)] EXCEPT !.notes = Strip(SubSeqFrom(c, to + 2)) ]

\* write_pm_status(project_path, metadata): the content written
write_pm_status(metadata) ==
    LET date(d) == <<"2025-02-", ToString(d)>>
        joined[k \in 0..Len(metadata.tags)] ==
            IF k = 0 THEN <<>>
            ELSE IF k = 1 THEN metadata.tags[1]
            ELSE joined[k - 1] \o <<",", " ">> \o metadata.tags[k]
        label == CASE metadata.priority = 1 -> "critical" [] metadata.priority = 2 -> "high"
                   [] metadata.priority = 4 -> "low" [] metadata.priority = 5 -> "someday"
                   [] OTHER -> "normal"
    IN  JoinLines(
            << <<"---">>,
               <<"priority", ":", " ", ToString(metadata.priority), " ", " ", "#", " ", label>> >>
            \o (IF metadata.deadline # NoDeadline
                THEN << <<"deadline", ":", " ">> \o date(metadata.deadline) >> ELSE <<>>)
            \o (IF metadata.target_date # NoDeadline
                THEN << <<"target_date", ":", " ">> \o date(metadata.target_date) >> ELSE <<>>)
            \o (IF metadata.tags # <<>>
                THEN << <<"tags", ":", " ", "[">> \o joined[Len(metadata.tags)] \o <<"]">> >>
                ELSE <<>>)
            \o (IF Truthy(metadata.client_name)
                THEN << <<"client", ":", " ">> \o metadata.client_name >> ELSE <<>>)
            \o (IF metadata.budget_hours # None /\ metadata.budget_hours # <<0>>
                THEN << <<"budget_hours", ":", " ", ToString(metadata.budget_hours[1]), ".0">> >>
                ELSE <<>>)
            \o (IF metadata.hours_logged # 0
                THEN << <<"hours_logged", ":", " ", ToString(metadata.hours_logged), ".0">> >>
                ELSE <<>>)
            \o (IF metadata.archived THEN << <<"archived", ":", " ", "true">> >> ELSE <<>>)
            \o << <<"---">>, <<>> >>
            \o (IF metadata.notes # <<>> THEN << metadata.notes >>
                ELSE << <<"#", " ", "Project", " ", "Notes">>, <<>>,
                        <<"Add", " ", "project-specific", " ", "notes", ",", " ", "context", ",",
                          " ", "and", " ", "decisions", " ", "here.">>, <<>> >>))

\* sync_to_file(project_path, **kwargs): the content written
sync_to_file(file, kwargs) ==
    LET existing == IF file = <<>> THEN DefaultMetadata ELSE parse_pm_status(file[1])
    IN  write_pm_status([ f \in DOMAIN existing |->
                            IF f \in DOMAIN kwargs THEN kwargs[f] ELSE existing[f] ])

\* the PM-STATUS.md files sync_to_file can find: none, two written by
\* write_pm_status, one in the format of the docstring of read_pm_status,
\* one with a text priority and no notes, one without frontmatter
StatusFiles ==
    { <<>>,
      << write_pm_status(DefaultMetadata) >>,
      << write_pm_status([ priority |-> 1, deadline |-> 15, target_date |-> 28,
                           tags |-> << <<"mobile">>, <<"ios">> >>,
                           client_name |-> <<"Acme", " ", "Corp">>,
                           budget_hours |-> <<40>>, hours_logged |-> 12, archived |-> TRUE,
                           notes |-> <<"Free-form", " ", "notes">> ]) >>,
      << JoinLines(<< <<"---">>, <<"priority", ":", " ", "2">>,
                      <<"deadline", ":", " ", "2025-02-", "15">>,
                      <<"tags", ":", " ", "[", "mobile", ",", " ", "ios", "]">>,
                      <<"client", ":", " ", "Acme", " ", "Corp">>,
                      <<"budget_hours", ":", " ", "40">>,
                      <<"hours_logged", ":", " ", "12">>,
                      <<"archived", ":", " ", "false">>,
                      <<"---">>, <<>>, <<"#", " ", "Notes">>, <<>>,
                      <<"Free-form", " ", "notes">> >>) >>,
      << JoinLines(<< <<"---">>, <<"priority", ":", " ", "high">>,
                      <<"budget", ":", " ", "0">>, <<"---">> >>) >>,
      << JoinLines(<< <<"Free-form", " ", "notes">> >>) >> }

\* a call sync_to_file(path, **kwargs)
SyncToFile ==
    /\ pc = "idle"
    /\ \E file \in StatusFiles :
       \E kwargs \in { <<>>, [ archived |-> TRUE ], [ priority |-> 2 ],
                       [ notes |-> <<"Done">> ], [ deadline |-> 20, color |-> 1 ] } :
          status_file' = [ before |-> file, kwargs |-> kwargs,
                           after |-> << sync_to_file(file, kwargs) >> ]
    /\ pc' = "synced"
    /\ UNCHANGED <<table, now, weighting, listing, db, stats, scans, batch, script, merging>>
    /\ UNCHANGED parserVarsButPc

\* the fields of ProjectMetadata the file holds
MetadataFields ==
    { "priority", "deadline", "target_date", "tags", "client_name", "budget_hours",
      "hours_logged", "archived", "notes" }

\* C28: after sync_to_file on an existing PM-STATUS.md every field that is
\* not named in kwargs reads back with the value it read back with before
\* the call.
C28_OtherFieldsKept ==
    (pc = "synced" /\ status_file.before # <<>>) =>
        \A f \in MetadataFields \ DOMAIN status_file.kwargs :
            parse_pm_status(status_file.after[1])[f] = parse_pm_status(status_file.before[1])[f]

(***************************************************************************)
(* The other commands                                                      *)
(***************************************************************************)
\* the commands end and the database file is put away; what was read and
\* printed is gone
Return ==
    /\ pc \in {"listed", "scanned-db", "scripted", "merge-returned", "synced"}
    /\ pc' = "idle"
    /\ status_file' = NoSync
    /\ merging' = NoMerging
    /\ batch' = NoBatch
    /\ script' = <<>>
    /\ table' = <<>>
    /\ now' = 0
    /\ weighting' = <<>>
    /\ listing' = NoListing
    /\ db' = EmptyDb
    /\ stats' = NoStats
    /\ scans' = <<>>
    /\ UNCHANGED parserVarsButPc

NextCommands ==
    \/ Urgent
    \/ ScanDb
    \/ GenerateBatchScript
    \/ MergeProgress
    \/ SyncToFile
    \/ Return

SpecCommands == Init /\ [][NextCommands]_vars

====
